---- MODULE Spec2Model ----
(***************************************************************************)
(* Geological Code Resolution Pipeline of GeoFrance: the API route         *)
(* src/pages/api/analyze-geology.ts (the handler of lines 185-426), one    *)
(* request at a time.  Strings are TLA+ strings; a character is a string   *)
(* of length one.  JavaScript's undefined/null is None (the empty tuple)   *)
(* and a present value x is Some(x) (the one-element tuple).               *)
(***************************************************************************)
EXTENDS Integers, Sequences, FiniteSets, TLC

None == << >>

Some(x) == << x >>

(***************************************************************************)
(* String primitives of JavaScript used by the handler.                    *)
(***************************************************************************)
Ch(s, i) == SubSeq(s, i, i)

\* pat occurs in s at position i
At(s, i, pat) ==
  /\ i >= 1
  /\ i + Len(pat) - 1 <= Len(s)
  /\ (Len(pat) > 0 => SubSeq(s, i, i + Len(pat) - 1) = pat)

\* String.prototype.includes
Includes(s, sub) == \E i \in 1..(Len(s) - Len(sub) + 1) : At(s, i, sub)

\* String.prototype.indexOf, 1-based; 0 stands for JavaScript's -1
IndexOf(s, sub) ==
  IF Includes(s, sub)
  THEN CHOOSE i \in 1..(Len(s) - Len(sub) + 1) :
         /\ At(s, i, sub)
         /\ \A j \in 1..(i - 1) : ~At(s, j, sub)
  ELSE 0

\* String.prototype.lastIndexOf, 1-based; 0 stands for JavaScript's -1
LastIndexOf(s, sub) ==
  IF Includes(s, sub)
  THEN CHOOSE i \in 1..(Len(s) - Len(sub) + 1) :
         /\ At(s, i, sub)
         /\ \A j \in (i + 1)..(Len(s) - Len(sub) + 1) : ~At(s, j, sub)
  ELSE 0

UpperChars ==
  <<"A","B","C","D","E","F","G","H","I","J","K","L","M","N","O","P","Q","R",
    "S","T","U","V","W","X","Y","Z","É">>

LowerChars ==
  <<"a","b","c","d","e","f","g","h","i","j","k","l","m","n","o","p","q","r",
    "s","t","u","v","w","x","y","z","é">>

LowerCh(c) ==
  IF \E k \in 1..Len(UpperChars) : UpperChars[k] = c
  THEN LowerChars[CHOOSE k \in 1..Len(UpperChars) : UpperChars[k] = c]
  ELSE c

RECURSIVE toLowerCase(_)
\* String.prototype.toLowerCase, computed by halves
toLowerCase(s) ==
  IF Len(s) = 0 THEN ""
  ELSE IF Len(s) = 1 THEN LowerCh(s)
  ELSE toLowerCase(SubSeq(s, 1, Len(s) \div 2))
       \o toLowerCase(SubSeq(s, (Len(s) \div 2) + 1, Len(s)))

WsChars == {" ", "\t", "\n", "\r"}

IsWs(c) == c \in WsChars

\* the least position from i on whose character is not in chars,
\* Len(s) + 1 when there is none
SkipIn(s, i, chars) ==
  IF \E j \in i..Len(s) : Ch(s, j) \notin chars
  THEN CHOOSE j \in i..Len(s) :
         Ch(s, j) \notin chars /\ \A k \in i..(j - 1) : Ch(s, k) \in chars
  ELSE IF i > Len(s) THEN i ELSE Len(s) + 1

\* the least position from i on whose character is in chars,
\* Len(s) + 1 when there is none
SkipNotIn(s, i, chars) ==
  IF \E j \in i..Len(s) : Ch(s, j) \in chars
  THEN CHOOSE j \in i..Len(s) :
         Ch(s, j) \in chars /\ \A k \in i..(j - 1) : Ch(s, k) \notin chars
  ELSE IF i > Len(s) THEN i ELSE Len(s) + 1

\* String.prototype.trim
Trim(s) ==
  IF \A j \in 1..Len(s) : IsWs(Ch(s, j)) THEN ""
  ELSE SubSeq(s, SkipIn(s, 1, WsChars),
              CHOOSE j \in 1..Len(s) :
                ~IsWs(Ch(s, j)) /\ \A k \in (j + 1)..Len(s) : IsWs(Ch(s, k)))

RECURSIVE ReplaceAll(_, _)
\* s.replace(/pat/g, '') for a literal pattern pat
ReplaceAll(s, pat) ==
  IF IndexOf(s, pat) = 0 THEN s
  ELSE SubSeq(s, 1, IndexOf(s, pat) - 1)
       \o ReplaceAll(SubSeq(s, IndexOf(s, pat) + Len(pat), Len(s)), pat)

(***************************************************************************)
(* JSON values and JSON.parse.  A value is a record [t, s, items]:         *)
(*   string  [t |-> "str", s |-> its text]                                 *)
(*   number  [t |-> "num", s |-> its literal]                              *)
(*   literal [t |-> "lit", s |-> "true" | "false" | "null"]                *)
(*   array   [t |-> "arr", items |-> the elements]                         *)
(*   object  [t |-> "obj", items |-> the members, in source order], a      *)
(*           member being [t |-> "member", s |-> key, items |-> <<value>>] *)
(***************************************************************************)
JStr(s) == [t |-> "str", s |-> s, items |-> << >>]

JNum(s) == [t |-> "num", s |-> s, items |-> << >>]

JLit(s) == [t |-> "lit", s |-> s, items |-> << >>]

JArr(items) == [t |-> "arr", s |-> "", items |-> items]

JObj(members) == [t |-> "obj", s |-> "", items |-> members]

JMember(k, v) == [t |-> "member", s |-> k, items |-> << v >>]

JNull == JLit("null")

Digits == {"0", "1", "2", "3", "4", "5", "6", "7", "8", "9"}

ParseFail == [ok |-> FALSE, val |-> JNull, pos |-> 0]

ParseOk(v, p) == [ok |-> TRUE, val |-> v, pos |-> p]

SkipWs(s, i) == SkipIn(s, i, WsChars)

SkipDigits(s, i) == SkipIn(s, i, Digits)

Unescape(c) ==
  CASE c = "n" -> "\n"
    [] c = "t" -> "\t"
    [] c = "r" -> "\r"
    [] OTHER -> c

RECURSIVE ScanString(_, _, _)
\* the characters of a string literal from position i (after the opening
\* quote) up to its closing quote; control characters must be escaped
ScanString(s, i, acc) ==
  LET j == SkipNotIn(s, i, {"\"", "\\", "\n", "\t", "\r"})
      run == IF j > i THEN SubSeq(s, i, j - 1) ELSE ""
  IN  IF j > Len(s) THEN ParseFail
      ELSE IF Ch(s, j) = "\"" THEN ParseOk(JStr(acc \o run), j + 1)
      ELSE IF Ch(s, j) = "\\"
           THEN IF j + 1 <= Len(s) /\ Ch(s, j + 1) \in {"\"", "\\", "/", "n", "t", "r"}
                THEN ScanString(s, j + 2, acc \o run \o Unescape(Ch(s, j + 1)))
                ELSE ParseFail
      ELSE ParseFail

\* -?(0|[1-9][0-9]*)(\.[0-9]+)? starting at position i
ParseNumber(s, i) ==
  LET i0 == IF i <= Len(s) /\ Ch(s, i) = "-" THEN i + 1 ELSE i
      i1 == SkipDigits(s, i0)
      intOk == i1 > i0 /\ (Ch(s, i0) = "0" => i1 = i0 + 1)
      hasFrac == i1 <= Len(s) /\ Ch(s, i1) = "."
      i2 == IF hasFrac THEN SkipDigits(s, i1 + 1) ELSE i1
  IN  IF ~intOk \/ (hasFrac /\ i2 = i1 + 1) THEN ParseFail
      ELSE ParseOk(JNum(SubSeq(s, i, i2 - 1)), i2)

RECURSIVE ParseValue(_, _), ParseElements(_, _, _), ParseMembers(_, _, _)
\* one JSON value starting at position i (no leading white space)
ParseValue(s, i) ==
  IF i > Len(s) THEN ParseFail
  ELSE IF Ch(s, i) = "\"" THEN ScanString(s, i + 1, "")
  ELSE IF Ch(s, i) = "{"
       THEN IF SkipWs(s, i + 1) <= Len(s) /\ Ch(s, SkipWs(s, i + 1)) = "}"
            THEN ParseOk(JObj(<< >>), SkipWs(s, i + 1) + 1)
            ELSE ParseMembers(s, SkipWs(s, i + 1), << >>)
  ELSE IF Ch(s, i) = "["
       THEN IF SkipWs(s, i + 1) <= Len(s) /\ Ch(s, SkipWs(s, i + 1)) = "]"
            THEN ParseOk(JArr(<< >>), SkipWs(s, i + 1) + 1)
            ELSE ParseElements(s, SkipWs(s, i + 1), << >>)
  ELSE IF At(s, i, "true") THEN ParseOk(JLit("true"), i + 4)
  ELSE IF At(s, i, "false") THEN ParseOk(JLit("false"), i + 5)
  ELSE IF At(s, i, "null") THEN ParseOk(JLit("null"), i + 4)
  ELSE ParseNumber(s, i)

\* the elements of an array from position i, up to and including "]"
ParseElements(s, i, acc) ==
  LET r == ParseValue(s, i)
      j == SkipWs(s, r.pos)
  IN  IF ~r.ok \/ j > Len(s) THEN ParseFail
      ELSE IF Ch(s, j) = "]" THEN ParseOk(JArr(Append(acc, r.val)), j + 1)
      ELSE IF Ch(s, j) = "," THEN ParseElements(s, SkipWs(s, j + 1), Append(acc, r.val))
      ELSE ParseFail

\* the members of an object from position i, up to and including "}"
ParseMembers(s, i, acc) ==
  IF i > Len(s) \/ Ch(s, i) # "\"" THEN ParseFail
  ELSE
    LET k == ScanString(s, i + 1, "")
        c == SkipWs(s, k.pos)
    IN  IF ~k.ok \/ c > Len(s) \/ Ch(s, c) # ":" THEN ParseFail
        ELSE
          LET r == ParseValue(s, SkipWs(s, c + 1))
              j == SkipWs(s, r.pos)
              acc2 == Append(acc, JMember(k.val.s, r.val))
          IN  IF ~r.ok \/ j > Len(s) THEN ParseFail
              ELSE IF Ch(s, j) = "}" THEN ParseOk(JObj(acc2), j + 1)
              ELSE IF Ch(s, j) = "," THEN ParseMembers(s, SkipWs(s, j + 1), acc2)
              ELSE ParseFail

\* JSON.parse: [ok |-> FALSE] stands for the SyntaxError it throws
JSONparse(s) ==
  LET r == ParseValue(s, SkipWs(s, 1))
  IN  IF r.ok /\ SkipWs(s, r.pos) = Len(s) + 1 THEN r ELSE ParseFail

(***************************************************************************)
(* JavaScript's view of a parsed value.  A looked-up property is None when *)
(* it is undefined and Some(v) otherwise; reading a property of undefined  *)
(* or null throws a TypeError, which the operators below report as threw.  *)
(***************************************************************************)
Truthy(o) ==
  /\ o # None
  /\ CASE o[1].t = "str" -> o[1].s # ""
       [] o[1].t = "num" -> \E i \in 1..Len(o[1].s) : Ch(o[1].s, i) \in (Digits \ {"0"})
       [] o[1].t = "lit" -> o[1].s = "true"
       [] OTHER -> TRUE

\* o is undefined or null: reading a property of it throws
Nullish(o) == o = None \/ (o[1].t = "lit" /\ o[1].s = "null")

\* v.key for an object (the last member of that name wins in JSON.parse);
\* a string, number, boolean or array has no such own property
Get(v, key) ==
  IF v.t = "obj" /\ \E i \in 1..Len(v.items) : v.items[i].s = key
  THEN LET i == CHOOSE k \in 1..Len(v.items) :
                  /\ v.items[k].s = key
                  /\ \A m \in (k + 1)..Len(v.items) : v.items[m].s # key
       IN  Some(v.items[i].items[1])
  ELSE None

\* v.length > 0
LengthPositive(v) ==
  CASE v.t = "arr" -> Len(v.items) > 0
    [] v.t = "str" -> Len(v.s) > 0
    [] v.t = "obj" -> /\ Get(v, "length") # None
                      /\ Get(v, "length")[1].t = "num"
                      /\ Ch(Get(v, "length")[1].s, 1) # "-"
                      /\ Truthy(Get(v, "length"))
    [] OTHER -> FALSE

\* v[0]
Index0(v) ==
  CASE v.t = "arr" -> IF Len(v.items) > 0 THEN Some(v.items[1]) ELSE None
    [] v.t = "str" -> IF Len(v.s) > 0 THEN Some(JStr(Ch(v.s, 1))) ELSE None
    [] v.t = "obj" -> Get(v, "0")
    [] OTHER -> None

\* a || b || ... || "" over looked-up properties: the first truthy operand,
\* else the final ""
OrChain(os) ==
  IF \E i \in 1..Len(os) : Truthy(os[i])
  THEN os[CHOOSE i \in 1..Len(os) :
            Truthy(os[i]) /\ \A j \in 1..(i - 1) : ~Truthy(os[j])][1]
  ELSE JStr("")

(***************************************************************************)
(* Evidence extraction, handler lines 203-242.                             *)
(***************************************************************************)
\* the markers of isInvalidBrgm without the last one
InvalidMarkersWithoutInconnu == {"layernotdefined", "non défini", "sans géométrie"}

InvalidMarkers == {"layernotdefined", "non défini", "sans géométrie", "inconnu"}

\* isInvalidBrgm comparing the markers case-sensitively
isInvalidBrgmCaseSensitive(text) ==
  \/ text = ""
  \/ \E m \in InvalidMarkers : Includes(text, m)

\* isInvalidBrgm applied to a string
isInvalidBrgm(text) ==
  \/ text = ""
  \/ \E m \in InvalidMarkers : Includes(toLowerCase(text), m)

Letters ==
  {"A","B","C","D","E","F","G","H","I","J","K","L","M","N","O","P","Q","R",
   "S","T","U","V","W","X","Y","Z",
   "a","b","c","d","e","f","g","h","i","j","k","l","m","n","o","p","q","r",
   "s","t","u","v","w","x","y","z"}

\* the class [A-Za-z0-9\-_]
CodeChars == Letters \cup Digits \cup {"-", "_"}

\* the class [:\s=]
SepChars == {":", "="} \cup WsChars

SkipSep(s, i) == SkipIn(s, i, SepChars)

SkipCode(s, i) == SkipIn(s, i, CodeChars)

\* /KEY[:\s=]+['"]?([A-Za-z0-9\-_]+)/i anchored at position i: the capture,
\* or None.  The separator run and the capture are greedy; no shorter
\* separator run or unconsumed quote can lead to a match.
KeyMatchAt(s, i, key) ==
  LET j == i + Len(key)
      k == SkipSep(s, j)
      q == IF k <= Len(s) /\ Ch(s, k) \in {"'", "\""} THEN k + 1 ELSE k
      e == SkipCode(s, q)
  IN  IF /\ j - 1 <= Len(s)
         /\ toLowerCase(SubSeq(s, i, j - 1)) = toLowerCase(key)
         /\ k > j
         /\ e > q
      THEN Some(SubSeq(s, q, e - 1))
      ELSE None

\* s.match(/KEY[:\s=]+['"]?([A-Za-z0-9\-_]+)/i): the capture of the leftmost
\* match, or None
KeyMatch(s, key) ==
  IF \E i \in 1..Len(s) : KeyMatchAt(s, i, key) # None
  THEN KeyMatchAt(s, CHOOSE i \in 1..Len(s) :
                        /\ KeyMatchAt(s, i, key) # None
                        /\ \A j \in 1..(i - 1) : KeyMatchAt(s, j, key) = None, key)
  ELSE None

\* what the try block of lines 221-232 leaves when it throws before any
\* assignment, and when it ends without any
ExtractThrew == [threw |-> TRUE, code |-> "", desc |-> ""]

ExtractNothing == [threw |-> FALSE, code |-> "", desc |-> ""]

\* lines 226-230 for the values of tempCode and tempDesc; isInvalidBrgm of
\* a truthy non-string throws
ExtractCodeDesc(tempCode, tempDesc) ==
  IF tempCode.t # "str" THEN ExtractThrew
  ELSE LET code == IF tempCode.s # "" /\ ~isInvalidBrgm(tempCode.s)
                   THEN tempCode.s ELSE ""
       IN  IF tempDesc.t # "str"
           THEN [threw |-> TRUE, code |-> code, desc |-> ""]
           ELSE [threw |-> FALSE, code |-> code,
                 desc |-> IF tempDesc.s # "" /\ ~isInvalidBrgm(tempDesc.s)
                          THEN tempDesc.s ELSE ""]

\* lines 224-230 for props, the looked-up data.features[0].properties
ExtractProps(props) ==
  IF Nullish(props) THEN ExtractThrew
  ELSE ExtractCodeDesc(
         OrChain(<<Get(props[1], "NOTATION"), Get(props[1], "CODE"),
                   Get(props[1], "notation"), Get(props[1], "code")>>),
         OrChain(<<Get(props[1], "DESCR"), Get(props[1], "DESCRIPTION"),
                   Get(props[1], "descr")>>))

\* lines 223-230 for the looked-up data.features[0]
ExtractFirst(first) ==
  IF Nullish(first) THEN ExtractThrew
  ELSE ExtractProps(Get(first[1], "properties"))

\* lines 223-231 for the looked-up data.features
ExtractFeatures(features) ==
  IF ~Truthy(features) THEN ExtractNothing
  ELSE IF ~LengthPositive(features[1]) THEN ExtractNothing
  ELSE ExtractFirst(Index0(features[1]))

\* lines 222-231 for the outcome of JSON.parse
ExtractData(r) ==
  IF ~r.ok THEN ExtractThrew
  ELSE IF Nullish(Some(r.val)) THEN ExtractThrew
  ELSE ExtractFeatures(Get(r.val, "features"))

\* the try block of lines 221-232: the values assigned before it ends or
\* throws, and whether it threw
ExtractJson(raw) == ExtractData(JSONparse(raw))

\* ExtractText trying the CODE pattern before the NOTATION pattern
ExtractTextCodeFirst(raw, codeSoFar) ==
  LET notationMatch == KeyMatch(raw, "NOTATION")
      codeMatch == KeyMatch(raw, "CODE")
  IN  IF codeMatch # None /\ ~isInvalidBrgm(codeMatch[1]) THEN codeMatch[1]
      ELSE IF notationMatch # None /\ ~isInvalidBrgm(notationMatch[1]) THEN notationMatch[1]
      ELSE codeSoFar

\* the catch block of lines 233-240
ExtractText(raw, codeSoFar) ==
  LET notationMatch == KeyMatch(raw, "NOTATION")
      codeMatch == KeyMatch(raw, "CODE")
  IN  IF notationMatch # None /\ ~isInvalidBrgm(notationMatch[1]) THEN notationMatch[1]
      ELSE IF codeMatch # None /\ ~isInvalidBrgm(codeMatch[1]) THEN codeMatch[1]
      ELSE codeSoFar

\* lines 221-240 for a raw text that passed the filter, j being what the try
\* block left: the catch block runs when it threw
ExtractOutcome(raw, j) ==
  [rawResponse |-> Some(raw),
   extractedCode |-> IF j.threw THEN ExtractText(raw, j.code) ELSE j.code,
   extractedDescription |-> j.desc]

\* lines 203-242 for a request body's wmsData (None for null): the
\* rawResponse left in wmsData and the extracted code and description
Extract(wmsData) ==
  IF wmsData = None \/ wmsData[1].rawResponse = ""
  THEN [rawResponse |-> IF wmsData = None THEN None ELSE Some(""),
        extractedCode |-> "", extractedDescription |-> ""]
  ELSE IF isInvalidBrgm(wmsData[1].rawResponse)
  THEN [rawResponse |-> Some(""), extractedCode |-> "", extractedDescription |-> ""]
  ELSE ExtractOutcome(wmsData[1].rawResponse, ExtractJson(wmsData[1].rawResponse))

(***************************************************************************)
(* Numbers.  A coordinate is an integer count of 10^-5 degrees (46.1 is    *)
(* 4610000), so that toFixed(4) has a digit to round.                      *)
(***************************************************************************)
Abs(n) == IF n < 0 THEN -n ELSE n

RECURSIVE NatToStr(_)
NatToStr(n) ==
  LET d == <<"0", "1", "2", "3", "4", "5", "6", "7", "8", "9">>[(n % 10) + 1]
  IN  IF n < 10 THEN d ELSE NatToStr(n \div 10) \o d

\* n as exactly w digits, zero-padded on the left
RECURSIVE Pad(_, _)
Pad(str, w) == IF Len(str) >= w THEN str ELSE Pad("0" \o str, w)

\* Number.prototype.toFixed(4): rounded to 4 decimals, sign kept
toFixed4(x) ==
  LET q == (Abs(x) + 5) \div 10
  IN  (IF x < 0 THEN "-" ELSE "")
      \o NatToStr(q \div 10000) \o "." \o Pad(NatToStr(q % 10000), 4)

RECURSIVE StripZeros(_)
\* trailing zeros of a fraction removed
StripZeros(str) ==
  IF Len(str) > 0 /\ Ch(str, Len(str)) = "0"
  THEN StripZeros(SubSeq(str, 1, Len(str) - 1)) ELSE str

\* the JSON text of a number (JSON.stringify): shortest decimal form
NumberToJson(x) ==
  LET frac == StripZeros(Pad(NatToStr(Abs(x) % 100000), 5))
  IN  (IF x < 0 THEN "-" ELSE "")
      \o NatToStr(Abs(x) \div 100000)
      \o (IF frac = "" THEN "" ELSE "." \o frac)

\* String.prototype.substring(from, to), 0-based bounds: both are clamped
\* to the string and swapped when from > to
Substring(s, from, to) ==
  LET clamp(n) == IF n < 0 THEN 0 ELSE IF n > Len(s) THEN Len(s) ELSE n
      lo == IF clamp(from) <= clamp(to) THEN clamp(from) ELSE clamp(to)
      hi == IF clamp(from) <= clamp(to) THEN clamp(to) ELSE clamp(from)
  IN  IF lo = hi THEN "" ELSE SubSeq(s, lo + 1, hi)

(***************************************************************************)
(* Instruction synthesis, handler lines 244-331.  The texts are the        *)
(* template literals of the source.                                        *)
(***************************************************************************)
\* Case1WmsInfo naming the database code as the one the user gave
Case1WmsInfoSwapped(manualCode, extractedCode, extractedDescription) ==
  "USER_INPUT: The user has manually identified the code as \""
  \o extractedCode
  \o "\".\n"
  \o "      DB_CONTEXT: The database at this location had \""
  \o manualCode
  \o "\" (\""
  \o extractedDescription
  \o "\")."

\* wmsInfo of CASE 1, lines 254-255
Case1WmsInfo(manualCode, extractedCode, extractedDescription) ==
  "USER_INPUT: The user has manually identified the code as \""
  \o manualCode
  \o "\".\n"
  \o "      DB_CONTEXT: The database at this location had \""
  \o extractedCode
  \o "\" (\""
  \o extractedDescription
  \o "\")."

\* instructions of CASE 1, lines 257-259
Case1Instructions(manualCode) ==
  "1. IDENTITY: You MUST output code \""
  \o manualCode
  \o "\".\n"
  \o "2. DESCRIPTION: Use the \""
  \o manualCode
  \o "\" value combined with the DB_CONTEXT and the visual map to provide a"
  \o " rich geological description.\n"
  \o "3. CONTEXT: If the manual code \""
  \o manualCode
  \o "\" implies a specific age or formation, use your internal knowledge t"
  \o "o describe it, while CROSS-REFERENCING the visual details (e.g., adj"
  \o "acent layers) to explain the paleogeography."

\* wmsInfo of CASE 2, line 262
Case2WmsInfo(extractedCode, extractedDescription) ==
  "DB_EXACT_REFERENCE: The BRGM database identifies the exact polygon a"
  \o "s code \""
  \o extractedCode
  \o "\" ("
  \o extractedDescription
  \o ")."

\* instructions of CASE 2, lines 264-287
Case2Instructions(extractedCode, extractedDescription) ==
  "1. IDENTITY (CRUCIAL):\n"
  \o "   - YOU MUST ABSOLUTELY TRUST THE DB_EXACT_REFERENCE. The geologica"
  \o "l code is exactly \""
  \o extractedCode
  \o "\".\n"
  \o "   - DO NOT ATTEMPT TO READ A DIFFERENT CODE FROM THE IMAGE. The map"
  \o " image is an outdated scan with frequent local notations (e.g., 'e5-"
  \o "4') that have been modernized and harmonized in the database (e.g., "
  \o "'es4' = Oligocène). Your visual reading can also hallucinate complet"
  \o "ely wrong codes (like reading 'n3' instead of 'c6b'). The DB vector "
  \o "code \""
  \o extractedCode
  \o "\" is the absolute ground truth.\n"
  \o "2. DESCRIPTION & STRATIGRAPHY:\n"
  \o "   - Use the code \""
  \o extractedCode
  \o "\" and base your precise geological age and lithology description str"
  \o "ictly on the DB description: \""
  \o extractedDescription
  \o "\".\n"
  \o "   - WARNING ON PREFIXES (BRGM Lexicon):\n"
  \o "     - 'c' (lowercase) = Crétacé (ex: c6b is Maastrichtien, NOT Carb"
  \o "onifère)\n"
  \o "     - 'j' = Jurassique\n"
  \o "     - 't' = Trias\n"
  \o "     - 'e' = Eocène\n"
  \o "     - 'g' = Oligocène\n"
  \o "     - 'm' = Miocène\n"
  \o "     - 'p' = Pliocène\n"
  \o "     - 'q' = Quaternaire\n"
  \o "     - 'h' = Carbonifère (Houiller)\n"
  \o "     - 'd' = Dévonien\n"
  \o "     - 's' = Silurien\n"
  \o "     - 'or' = Ordovicien\n"
  \o "     - 'k' = Cambrien\n"
  \o "   - Apply strict scientific rigor to determine the exact age and mi"
  \o "llions of years (Ma).\n"
  \o "3. PALEOGEOGRAPHY: The provided image is solely for you to deduce th"
  \o "e paleogeography (environment, sea level, topography) and understand"
  \o " surrounding faults.\n"
  \o "4. FOSSILS (CRUCIAL): You must query your internal knowledge of the "
  \o "specific **BRGM geological map notice** (Notice explicative de la ca"
  \o "rte géologique 1/50000) for this exact location and formation (the o"
  \o "ne you definitively chose).\n"
  \o "   - Extract the EXACT fossil genera or species characteristic of th"
  \o "is layer according to the official BRGM text (e.g., specific ammonit"
  \o "es, rudistes, foraminifera, nummulites).\n"
  \o "   - NEVER use generic terms like 'mollusques', 'dinosaures', or 'bi"
  \o "valves' alone. Give high scientific precision."

\* wmsInfo of CASE 3, line 290
Case3WmsInfo(rawResponse) ==
  "DB_HINT: Database raw response: "
  \o Substring(rawResponse, 0, 500)

\* instructions of CASE 3, lines 291-293
Case3Instructions ==
  "1. Identify the exact code using the DB_HINT text first. Only if the"
  \o " DB_HINT is totally empty or unreadable should you guess from the ex"
  \o "act center of the map image.\n"
  \o "2. Provide the scientific description matching the DB_HINT.\n"
  \o "3. For Fossils, base your response on the official BRGM notice for t"
  \o "his exact unit, providing precise species/genera, avoiding generic t"
  \o "erms."

\* instructions of CASE 4, lines 296-298
Case4Instructions ==
  "1. Identify the geological code strictly from the EXACT CENTER of th"
  \o "e map image. Be careful with lower case (c = Crétacé) vs upper case."
  \o "\n"
  \o "2. Provide the scientific description for that specific unit based o"
  \o "n BRGM standards.\n"
  \o "3. For Fossils, base your response on the official BRGM notice for t"
  \o "his region and unit, providing precise species/genera, avoiding gene"
  \o "ric terms."

\* Prompt without the language requirement and with fossils as plain names
PromptWithoutLocale(lat, lng, wmsInfo, instructions) ==
  "You are an expert geologist analysing a geological map of France (BR"
  \o "GM 1/50000).\n"
  \o "Your Goal: Identify the geological unit EXACTLY as provided by the d"
  \o "atabase query or the user.\n"
  \o "\n"
  \o "Context:\n"
  \o "Location: Lat "
  \o toFixed4(lat)
  \o ", Lng "
  \o toFixed4(lng)
  \o "\n"
  \o wmsInfo
  \o "\n"
  \o "Visual Map: See attached image for spatial context (faults, neighbor"
  \o "s, geography).\n"
  \o "\n"
  \o "INSTRUCTIONS:\n"
  \o instructions
  \o "\n"
  \o "\n"
  \o "Response strictly in valid JSON:\n"
  \o "{\"code\":\"[Exact code]\",\"formation\":\"formation name\",\"fossils\":[\"name\"]}"

\* the prompt of lines 301-315
Prompt(lat, lng, wmsInfo, instructions) ==
  "You are an expert geologist analysing a geological map of France (BR"
  \o "GM 1/50000).\n"
  \o "Your Goal: Identify the geological unit EXACTLY as provided by the d"
  \o "atabase query or the user.\n"
  \o "\n"
  \o "Context:\n"
  \o "Location: Lat "
  \o toFixed4(lat)
  \o ", Lng "
  \o toFixed4(lng)
  \o "\n"
  \o wmsInfo
  \o "\n"
  \o "Visual Map: See attached image for spatial context (faults, neighbor"
  \o "s, geography).\n"
  \o "\n"
  \o "INSTRUCTIONS:\n"
  \o instructions
  \o "\n"
  \o "IMPORTANT: ALL YOUR ANSWERS AND DESCRIPTIONS MUST BE IN FRENCH. \n"
  \o "RÉPONDEZ OBLIGATOIREMENT EN FRANÇAIS. Toutes les données récupérées "
  \o "ou générées (lithologie, paléogéographie, âge, formation, descriptio"
  \o "n, fossiles) doivent être rédigées et traduites en français.\n"
  \o "\n"
  \o "Response strictly in valid JSON:\n"
  \o "{\"code\":\"[Exact code]\",\"location_name\":\"commune\",\"map_sheet\":\"feuill"
  \o "e 1/50k\",\"age\":\"stratigraphic age (en français)\",\"age_ma\":\"âge estim"
  \o "é en millions d'années (ex: ~150 Ma)\",\"formation\":\"formation name (e"
  \o "n français)\",\"lithology\":\"rock description (en français)\",\"descripti"
  \o "on\":\"detailed geological context (en français)\",\"paleogeography\":{\"e"
  \o "nvironment\":\"depositional environment (en français)\",\"climate\":\"pale"
  \o "oclimate (en français)\",\"temperature\":\"température moyenne estimée ("
  \o "ex: 25°C)\",\"sea_level\":\"sea level (en français)\",\"sea_level_m\":\"nive"
  \o "au marin par rapport à l'actuel (ex: +50m)\",\"context\":\"landscape des"
  \o "cription (en français)\",\"period_en\":\"Major geological period in Engl"
  \o "ish (ex: Jurassic, Cretaceous, Triassic - VERY IMPORTANT for map sea"
  \o "rch)\"},\"fossils\":[{\"name\":\"Nom combiné pédagogique et latin (ex: Amm"
  \o "onite (Perisphinctes))\",\"scientific_query\":\"STRICT NOM LATIN UNIQUE "
  \o "du genre sans espace (ex: Perisphinctes)\"}]}"

\* Brief with the database code tested before the manual code
BriefDatabaseFirst(manualCode, extractedCode, extractedDescription, rawResponse) ==
  IF extractedCode # ""
  THEN [wmsInfo |-> Case2WmsInfo(extractedCode, extractedDescription),
        instructions |-> Case2Instructions(extractedCode, extractedDescription)]
  ELSE IF manualCode # None /\ manualCode[1] # ""
  THEN [wmsInfo |-> Case1WmsInfo(manualCode[1], extractedCode, extractedDescription),
        instructions |-> Case1Instructions(manualCode[1])]
  ELSE IF rawResponse # None /\ rawResponse[1] # ""
  THEN [wmsInfo |-> Case3WmsInfo(rawResponse[1]),
        instructions |-> Case3Instructions]
  ELSE [wmsInfo |-> "", instructions |-> Case4Instructions]

\* lines 250-299: the wmsInfo and instructions of the selected case;
\* manualCode and rawResponse are None when undefined
Brief(manualCode, extractedCode, extractedDescription, rawResponse) ==
  IF manualCode # None /\ manualCode[1] # ""
  THEN [wmsInfo |-> Case1WmsInfo(manualCode[1], extractedCode, extractedDescription),
        instructions |-> Case1Instructions(manualCode[1])]
  ELSE IF extractedCode # ""
  THEN [wmsInfo |-> Case2WmsInfo(extractedCode, extractedDescription),
        instructions |-> Case2Instructions(extractedCode, extractedDescription)]
  ELSE IF rawResponse # None /\ rawResponse[1] # ""
  THEN [wmsInfo |-> Case3WmsInfo(rawResponse[1]),
        instructions |-> Case3Instructions]
  ELSE [wmsInfo |-> "", instructions |-> Case4Instructions]

\* Parts with the prompt before the image
PartsTextFirst(mapImageBase64, prompt) ==
  << [kind |-> "text", mimeType |-> "", data |-> prompt] >>
  \o (IF mapImageBase64 # None /\ mapImageBase64[1] # ""
      THEN << [kind |-> "inlineData", mimeType |-> "image/jpeg", data |-> mapImageBase64[1]] >>
      ELSE << >>)

\* lines 317-331: the inline image, when there is one, then the prompt
Parts(mapImageBase64, prompt) ==
  (IF mapImageBase64 # None /\ mapImageBase64[1] # ""
   THEN << [kind |-> "inlineData", mimeType |-> "image/jpeg", data |-> mapImageBase64[1]] >>
   ELSE << >>)
  \o << [kind |-> "text", mimeType |-> "", data |-> prompt] >>

(***************************************************************************)
(* Result normalization, handler lines 384-417.  TLA+ strings cannot hold  *)
(* the backtick character: Backtick is the character that stands for it in *)
(* reply texts.                                                            *)
(***************************************************************************)
Backtick == "^"

Fence == Backtick \o Backtick \o Backtick

RECURSIVE StripJsonFences(_)
\* text.replace(/```json\n?/g, '')
StripJsonFences(s) ==
  LET i == IndexOf(s, Fence \o "json")
      j == i + Len(Fence) + 4
      k == IF j <= Len(s) /\ Ch(s, j) = "\n" THEN j + 1 ELSE j
  IN  IF i = 0 THEN s
      ELSE SubSeq(s, 1, i - 1) \o StripJsonFences(SubSeq(s, k, Len(s)))

\* CleanResponse without the slice of lines 390-394
CleanResponseUnsliced(text) == Trim(ReplaceAll(StripJsonFences(text), Fence))

\* lines 389-394: fences removed, trimmed, sliced to first "{" .. last "}"
CleanResponse(text) ==
  LET t == Trim(ReplaceAll(StripJsonFences(text), Fence))
      firstBrace == IndexOf(t, "{")
      lastBrace == LastIndexOf(t, "}")
  IN  IF firstBrace # 0 /\ lastBrace # 0
      THEN Substring(t, firstBrace - 1, lastBrace)
      ELSE t

Keys(members) == {members[i].s : i \in 1..Len(members)}

\* obj[key] = v on a member list: replaced in place, or appended
SetProp(members, key, v) ==
  IF key \in Keys(members)
  THEN [i \in 1..Len(members) |->
          IF members[i].s = key THEN JMember(key, v) ELSE members[i]]
  ELSE Append(members, JMember(key, v))

RECURSIVE SetAll(_, _)
SetAll(acc, members) ==
  IF members = << >> THEN acc
  ELSE SetAll(SetProp(acc, Head(members).s, Head(members).items[1]), Tail(members))

\* the own enumerable properties that { ...data } copies
Spread(data) ==
  CASE data.t = "obj" -> SetAll(<< >>, data.items)
    [] data.t = "arr" ->
         [i \in 1..Len(data.items) |-> JMember(NatToStr(i - 1), data.items[i])]
    [] data.t = "str" ->
         [i \in 1..Len(data.s) |-> JMember(NatToStr(i - 1), JStr(Ch(data.s, i)))]
    [] OTHER -> << >>

\* Result with the reply's own fields winning: { coords, sources, ...data }
ResultReplyWins(data, lat, lng) ==
  JObj(SetAll(<<JMember("coords",
                        JObj(<<JMember("lat", JNum(NumberToJson(lat))),
                               JMember("lng", JNum(NumberToJson(lng)))>>)),
                JMember("sources", JArr(<< >>))>>,
              Spread(data)))

\* lines 410-414: { ...data, coords: { lat, lng }, sources: [] }
Result(data, lat, lng) ==
  JObj(SetProp(SetProp(Spread(data), "coords",
                       JObj(<<JMember("lat", JNum(NumberToJson(lat))),
                              JMember("lng", JNum(NumberToJson(lng)))>>)),
               "sources", JArr(<< >>)))

(***************************************************************************)
(* Failure messages of the handler.                                        *)
(***************************************************************************)
MethodNotAllowedMessage == "Method not allowed"

ApiKeyMessage ==
  "API key not configured. Please set GEMINI_API_KEY environment variable."

QuotaMessage ==
  "Le quota de l'API Gemini 2.5 Flash est dépassé (Limité à 5 requêtes/min)."
  \o " Veuillez attendre 20 secondes avant de réessayer."

OverloadedMessage ==
  "Le modèle IA (Gemini 2.5) est actuellement surchargé. Veuillez réessayer"
  \o " dans quelques instants."

EmptyResponseMessage == "Réponse vide de l'IA"

InvalidFormatMessage == "Format de réponse invalide"

UnknownErrorMessage == "Erreur inconnue lors de l'analyse"

\* the TypeError of reading data.code when data is null (lines 406, 416)
NullDataMessage == "Cannot read properties of null (reading 'code')"

\* IsQuotaError testing the status code only
IsQuotaErrorStatusOnly(message) == message # "" /\ Includes(message, "429")

\* line 353
IsQuotaError(message) ==
  message # "" /\ (Includes(message, "429") \/ Includes(message, "quota"))

\* line 360
IsOverloadError(message) == Includes(message, "503") \/ Includes(message, "Overloaded")

\* a budget of four attempts
maxAttemptsFour == 3 + 1

maxAttempts == 3

BackoffBase == 2000

(***************************************************************************)
(* What the environment supplies: request bodies and the outcomes of a     *)
(* call to the inference service.                                          *)
(***************************************************************************)
RawTexts ==
  { "",
    "{\"features\":[{\"properties\":{\"NOTATION\":\"j9ad\",\"DESCR\":\"Jurassique\"}}]}",
    "{\"features\":[{\"properties\":{\"CODE\":\"t2\"}}]}",
    "{\"features\":[]}",
    "NOTATION: e5-4",
    "Aucune information pour ce point",
    "<ServiceException code=\"LayerNotDefined\">NOTATION=c6b</ServiceException>",
    "Couche NON DÉFINI",
    "{\"features\":[{\"properties\":{\"NOTATION\":\"c6b\",\"DESCR\":\"Age Inconnu\"}}]}",
    "objet SANS GÉOMÉTRIE, CODE=x1" }

ManualCodes == {Some(""), Some("J9ad")}

\* the raw texts sent along with a manual code: none, one with a valid code,
\* one without any code, one that the filter discards
ManualRawTexts ==
  { "",
    "{\"features\":[{\"properties\":{\"NOTATION\":\"j9ad\",\"DESCR\":\"Jurassique\"}}]}",
    "Aucune information pour ce point",
    "Couche NON DÉFINI" }

\* no wmsData at all; every raw text with an image and no manual code; a
\* manual code, empty or not, with an image; a request without image; the
\* body of a manual correction made when no evidence was stored (App.tsx
\* line 56)
WmsDatas ==
  {None}
  \cup { Some([rawResponse |-> r, mapImageBase64 |-> Some("/9j/4AAQSkZJRg"), manualCode |-> None]) :
           r \in RawTexts }
  \cup { Some([rawResponse |-> r, mapImageBase64 |-> Some("/9j/4AAQSkZJRg"), manualCode |-> m]) :
           r \in ManualRawTexts, m \in ManualCodes }
  \cup { Some([rawResponse |-> "{\"features\":[{\"properties\":{\"CODE\":\"t2\"}}]}",
               mapImageBase64 |-> None, manualCode |-> None]),
          Some([rawResponse |-> "", mapImageBase64 |-> None, manualCode |-> Some("J9ad")]) }

Requests ==
  { [method |-> "POST", lat |-> 4610000, lng |-> 250000, wmsData |-> w] : w \in WmsDatas }
  \cup
  { [method |-> "POST", lat |-> 4660334, lng |-> -188838,
     wmsData |-> Some([rawResponse |-> "NOTATION: e5-4",
                       mapImageBase64 |-> Some("/9j/4AAQSkZJRg"),
                       manualCode |-> None])],
    [method |-> "GET", lat |-> 4610000, lng |-> 250000, wmsData |-> None] }

CompleteReply ==
  "{\"code\":\"t2\",\"formation\":\"Muschelkalk\",\"lithology\":\"Calcaires\","
  \o "\"description\":\"Calcaires du Trias moyen\","
  \o "\"paleogeography\":{\"environment\":\"Plate-forme carbonatée\"}}"

\* a complete record under the code of the manual correction
ManualReply ==
  "{\"code\":\"J9ad\",\"formation\":\"Malm\",\"lithology\":\"Marnes\","
  \o "\"description\":\"Marnes du Jurassique\","
  \o "\"paleogeography\":{\"environment\":\"Bassin marin\"}}"

ReplyTexts ==
  { "",
    CompleteReply,
    "Voici la fiche:\n" \o Fence \o "json\n" \o ManualReply \o "\n" \o Fence \o "\nFin.",
    "{\"code\":\"n3\",\"formation\":\"Muschelkalk\","
      \o "\"description\":\"Calcaires du Trias moyen\","
      \o "\"paleogeography\":{\"environment\":\"Plate-forme carbonatée\"},"
      \o "\"coords\":{\"lat\":0,\"lng\":0},\"sources\":[{\"uri\":\"u\",\"title\":\"t\"}]}",
    "{\"code\":\"t2\",\"formation\":\"Muschelkalk\",\"lithology\":\"\","
      \o "\"description\":\"Calcaires\",\"paleogeography\":{\"environment\":\"\"}}",
    "Je ne peux pas analyser cette carte.",
    "{\"code\":\"t2\",",
    "null",
    " \n" }

ErrorMessages ==
  { "got status: 429 Too Many Requests",
    "You exceeded your current quota",
    "got status: 503 Service Unavailable",
    "Overloaded",
    "503 after quota check",
    "fetch failed",
    "" }

\* a call resolves with a response whose text is a string or undefined, or
\* rejects with an Error
Outcomes ==
  { [kind |-> "response", text |-> Some(t), message |-> ""] : t \in ReplyTexts }
  \cup { [kind |-> "response", text |-> None, message |-> ""] }
  \cup { [kind |-> "error", text |-> None, message |-> m] : m \in ErrorMessages }

(***************************************************************************)
(* The evidence extractor on its own: the same handler, driven through     *)
(* extraction and synthesis by requests whose raw texts are built from     *)
(* parts.                                                                  *)
(***************************************************************************)
RECURSIVE Join(_, _)
\* the non-empty texts of a sequence, separated by sep
Join(texts, sep) ==
  IF texts = << >> THEN ""
  ELSE IF Head(texts) = "" THEN Join(Tail(texts), sep)
  ELSE IF Join(Tail(texts), sep) = "" THEN Head(texts)
  ELSE Head(texts) \o sep \o Join(Tail(texts), sep)

\* the accepted keys of a property bag, in the order of lines 225-226, each
\* with the string and the number a bag may hold under it
CodeKeys ==
  << [key |-> "NOTATION", str |-> "j9ad", num |-> "123"],
     [key |-> "CODE", str |-> "t2", num |-> "45"],
     [key |-> "notation", str |-> "n3", num |-> "7"],
     [key |-> "code", str |-> "c6b", num |-> "8"] >>

DescKeys ==
  << [key |-> "DESCR", str |-> "Jurassique", num |-> "1"],
     [key |-> "DESCRIPTION", str |-> "Calcaires", num |-> "2"],
     [key |-> "descr", str |-> "Marnes", num |-> "3"] >>

\* a property bag: for each key, whether it is absent, an empty string, a
\* string or a number
Bags ==
  { [code |-> c, desc |-> <<"string", "absent", "absent">>] :
      c \in {"absent", "empty", "string", "number"} \X {"absent", "empty", "string", "number"}
            \X {"absent", "empty", "string"} \X {"absent", "empty", "string"} }
  \cup
  { [code |-> <<"string", "absent", "absent", "absent">>, desc |-> d] :
      d \in {"absent", "empty", "string"} \X {"absent", "empty", "string"}
            \X {"absent", "empty", "string"} }

\* the JSON text of one member of a bag
MemberText(k, kind) ==
  CASE kind = "absent" -> ""
    [] kind = "empty" -> "\"" \o k.key \o "\":\"\""
    [] kind = "string" -> "\"" \o k.key \o "\":\"" \o k.str \o "\""
    [] kind = "number" -> "\"" \o k.key \o "\":" \o k.num

\* the feature collection whose first feature has this bag, followed by a
\* second feature with a code and a description of its own
BagText(bag) ==
  "{\"features\":[{\"properties\":{"
  \o Join([i \in 1..7 |-> IF i <= 4 THEN MemberText(CodeKeys[i], bag.code[i])
                          ELSE MemberText(DescKeys[i - 4], bag.desc[i - 4])], ",")
  \o "}},{\"properties\":{\"NOTATION\":\"zz9\",\"DESCR\":\"Autre couche\"}}]}"

\* raw texts that are not JSON, each with the code the text path of lines
\* 235-238 extracts from it and the code of the key=value occurrence that
\* comes first in the text
TextCases ==
  { [raw |-> "NOTATION: e5-4", code |-> "e5-4", earliest |-> "e5-4"],
    [raw |-> "Layer GEOL, notation=g2, age tertiaire", code |-> "g2", earliest |-> "g2"],
    [raw |-> "Notation 'j_3'", code |-> "j_3", earliest |-> "j_3"],
    [raw |-> "code: \"t2\"", code |-> "t2", earliest |-> "t2"],
    [raw |-> "GetFeatureInfo results: NOTATION = 'l4-5' DESCR = 'Lias'",
     code |-> "l4-5", earliest |-> "l4-5"],
    [raw |-> "NOTATION=y2; CODE=x1", code |-> "y2", earliest |-> "y2"],
    [raw |-> "CODE=x1; NOTATION=y2", code |-> "y2", earliest |-> "x1"],
    [raw |-> "CODE: t2\nNOTATION: j9", code |-> "j9", earliest |-> "t2"],
    [raw |-> "NOTATION: a1 NOTATION: b2", code |-> "a1", earliest |-> "a1"],
    [raw |-> "NOTATION: ; CODE=k4", code |-> "k4", earliest |-> "k4"],
    [raw |-> "NOTATION:", code |-> "", earliest |-> ""],
    [raw |-> "NOTATIONx5", code |-> "", earliest |-> ""],
    [raw |-> "NOTATION=\"\"", code |-> "", earliest |-> ""],
    [raw |-> "<FeatureInfo><NOTATION>c4</NOTATION></FeatureInfo>", code |-> "", earliest |-> ""],
    [raw |-> "Aucune information pour ce point", code |-> "", earliest |-> ""] }

RECURSIVE Repeat(_, _)
Repeat(s, n) == IF n = 0 THEN "" ELSE s \o Repeat(s, n - 1)

\* a raw text without any code, longer than the 500 characters of line 290
LongText == Repeat("Pas de couche ici. ", 27) \o "FIN"

\* raw texts carrying a marker, of isInvalidBrgm or in English, in several
\* letter cases, with a code next to it
MarkerTexts ==
  { "<ServiceException code=\"LayerNotDefined\">NOTATION=c6b</ServiceException>",
    "layernotdefined",
    "Couche NON DÉFINI, NOTATION: c6b",
    "non défini",
    "objet SANS GÉOMÉTRIE, CODE=x1",
    "Objet sans géométrie",
    "{\"features\":[{\"properties\":{\"NOTATION\":\"c6b\",\"DESCR\":\"Age Inconnu\"}}]}",
    "INCONNU",
    "Error: Layer Not Defined. NOTATION: c6b",
    "layer not defined",
    "value is undefined, NOTATION: c6b",
    "UNDEFINED",
    "No Geometry at this point",
    "{\"features\":[{\"properties\":{\"NOTATION\":\"c6b\",\"DESCR\":\"no geometry\"}}]}",
    "Unknown unit, CODE=x1",
    "unknown" }

\* JSON texts that are not a feature collection with a property bag
OtherJsonTexts ==
  { "{\"features\":[]}",
    "{}",
    "[]",
    "\"NOTATION: e5-4\"",
    "{\"features\":[{\"id\":\"f1\"}]}",
    "{\"features\":[null,{\"properties\":{\"NOTATION\":\"zz9\"}}]}",
    "{\"type\":\"FeatureCollection\",\"features\":[{\"type\":\"Feature\",\"properties\":null}]}",
    "null" }

ExtractRaws ==
  {""} \cup {BagText(b) : b \in Bags} \cup {c.raw : c \in TextCases}
  \cup {LongText} \cup MarkerTexts \cup OtherJsonTexts

\* requests with an image and no manual code, and two with a manual code
ExtractRequests ==
  { [method |-> "POST", lat |-> 4610000, lng |-> 250000,
     wmsData |-> Some([rawResponse |-> r, mapImageBase64 |-> Some("/9j/4AAQSkZJRg"),
                       manualCode |-> None])] : r \in ExtractRaws }
  \cup
  { [method |-> "POST", lat |-> 4610000, lng |-> 250000,
     wmsData |-> Some([rawResponse |-> r, mapImageBase64 |-> Some("/9j/4AAQSkZJRg"),
                       manualCode |-> Some("J9ad")])] :
      r \in {"Aucune information pour ce point", "unknown"} }

(***************************************************************************)
(* The normalizer on its own: the same handler, driven by replies built    *)
(* from parts (prose, fences, an object or another text) and by replies    *)
(* that are the serialization of a record.                                 *)
(***************************************************************************)
EscapeChar(c) ==
  CASE c = "\n" -> "n"
    [] c = "\t" -> "t"
    [] c = "\r" -> "r"
    [] OTHER -> c

RECURSIVE EscapeFrom(_, _, _)
\* the characters of s from position i, escaped as JSON.stringify escapes
\* them; j is the position of the first character to escape from i on
EscapeFrom(s, i, j) ==
  IF j > Len(s) THEN (IF i > Len(s) THEN "" ELSE SubSeq(s, i, Len(s)))
  ELSE (IF j > i THEN SubSeq(s, i, j - 1) ELSE "")
       \o "\\" \o EscapeChar(Ch(s, j))
       \o EscapeFrom(s, j + 1, SkipNotIn(s, j + 1, {"\"", "\\", "\n", "\t", "\r"}))

\* JSON.stringify of a string
Quote(s) ==
  "\"" \o EscapeFrom(s, 1, SkipNotIn(s, 1, {"\"", "\\", "\n", "\t", "\r"})) \o "\""

RECURSIVE Stringify(_), StringifyItems(_)
\* JSON.stringify of a value
Stringify(v) ==
  CASE v.t = "str" -> Quote(v.s)
    [] v.t \in {"num", "lit"} -> v.s
    [] v.t = "arr" -> "[" \o StringifyItems(v.items) \o "]"
    [] v.t = "obj" -> "{" \o StringifyItems(v.items) \o "}"
    [] v.t = "member" -> Quote(v.s) \o ":" \o Stringify(v.items[1])

\* the values of a list, serialized and separated by commas
StringifyItems(items) ==
  IF items = << >> THEN ""
  ELSE IF Len(items) = 1 THEN Stringify(items[1])
  ELSE Stringify(items[1]) \o "," \o StringifyItems(Tail(items))

\* a record whose description is this text
RecordOf(description) ==
  JObj(<< JMember("code", JStr("j3")),
          JMember("formation", JStr("Calcaires à entroques")),
          JMember("lithology", JStr("Calcaire")),
          JMember("description", JStr(description)),
          JMember("age_ma", JNum("170.5")),
          JMember("paleogeography",
                  JObj(<< JMember("environment", JStr("Plate-forme")),
                          JMember("temperature", JNull) >>)),
          JMember("fossils",
                  JArr(<< JObj(<< JMember("name", JStr("Ammonite")),
                                  JMember("scientific_query", JStr("Perisphinctes")) >>),
                          JStr("Bélemnites") >>)) >>)

\* descriptions without any fence marker: plain, with braces, with quotes,
\* a backslash and a line break, with white space at both ends
PlainDescriptions ==
  { "Calcaires du Bajocien",
    "Niveau {a} puis }b{",
    "dit \"Lias\"\nfin \\ ",
    "  marnes  " }

\* descriptions that hold a fence marker
FencedDescriptions ==
  { "Bloc " \o Fence \o "json\n{\"x\":1}" \o Fence \o " cité",
    "Trois accents " \o Fence \o " dans le texte" }

CleanRecords == { RecordOf(d) : d \in PlainDescriptions \cup FencedDescriptions }

\* the texts of objects without fence markers: serialized records and an
\* indented object
InnerObjects ==
  { Stringify(RecordOf(d)) : d \in {"Calcaires du Bajocien", "Niveau {a} puis }b{"} }
  \cup { "{\n  \"code\": \"j3\",\n  \"formation\": \"Calcaires\"\n}" }

\* texts without "{" or without "}"
UnbracedTexts ==
  { "Je ne peux pas analyser cette carte.",
    "[\"j3\",\"l4\"]",
    "analyse { interrompue",
    "fin } de la fiche",
    "null" }

\* replies built from parts, each with the text that is to reach the
\* parser: an object between fences, with prose before and after; a text
\* without one of the braces, bare or between fences
FenceCases ==
  { [raw |-> pre \o open \o o \o close \o post, inner |-> o] :
      pre \in {"Voici la fiche :\n", "Fin } du préambule. "},
      open \in {Fence \o "json\n", Fence \o "json", Fence \o "\n"},
      o \in InnerObjects,
      close \in {"\n" \o Fence, Fence},
      post \in {"\nBonne lecture.", " Voir { ci-dessus"} }
  \cup
  { [raw |-> open \o u \o close, inner |-> u] :
      open \in {"", Fence \o "json\n"},
      close \in {"", "\n" \o Fence \o "\n"},
      u \in UnbracedTexts }

CleanReplies == {c.raw : c \in FenceCases} \cup {Stringify(r) : r \in CleanRecords}

CleanOutcomes == { [kind |-> "response", text |-> Some(t), message |-> ""] : t \in CleanReplies }

CleanRequests ==
  { [method |-> "POST", lat |-> 4610000, lng |-> 250000, wmsData |-> None],
    [method |-> "POST", lat |-> 4885660, lng |-> -235220,
     wmsData |-> Some([rawResponse |-> "NOTATION: e5-4", mapImageBase64 |-> None,
                       manualCode |-> None])] }

(***************************************************************************)
(* The handler as a state machine.                                         *)
(***************************************************************************)
VARIABLES
  pc,                     \* position of the handler
  apiKey,                 \* process.env.GEMINI_API_KEY
  req,                    \* the request, None before it arrives
  wmsData,                \* req.body.wmsData, whose rawResponse line 219 clears
  extractedCode,
  extractedDescription,
  prompt,
  parts,
  attempts,
  text,                   \* None while undefined
  calls,                  \* history: the inference calls made, in order
  waits,                  \* history: the backoff waits, in ms
  lastErr,                \* history: the error of the last call, None if none
  res,                    \* the responses sent, in order
  running,                \* which of two invocations of the handler has the variables above
  suspended               \* the same variables of the other invocation, waiting at an await

\* the caller: the state of App (src/App.tsx lines 19-24), the clock and the
\* last accepted click of MapEvents, and the asynchronous calls under way
VARIABLES
  status,                 \* LoadingState
  analysisData,           \* None while null
  error,                  \* None while null
  selectedCoords,         \* None while null
  isPanelOpen,
  currentWmsData,         \* None while null
  lastClickTime,          \* lastClickTime.current, in ms
  now,                    \* Date.now(), in ms
  fetching,               \* the fetchBrgmData calls under way
  clicked,                \* history: the click events, accepted or not
  pending,                \* the analyzeGeologyAtLocation calls under way
  answer,                 \* history: the last response of the API route, None before
  issued,                 \* history: number of analysis calls made so far
  selection,              \* history: the call made by the latest selection
  shownFrom               \* history: the call each shown value comes from

appVars ==
  <<status, analysisData, error, selectedCoords, isPanelOpen, currentWmsData,
    lastClickTime, now, fetching, clicked, pending, answer, issued, selection,
    shownFrom>>

\* the clicks closer than this to the last accepted one are dropped
DebounceMs == 1000

handlerVars ==
  <<pc, apiKey, req, wmsData, extractedCode, extractedDescription, prompt,
    parts, attempts, text, calls, waits, lastErr, res, running, suspended>>

\* the variables of an invocation that has not received its request
IdleLocals ==
  [pc |-> "idle", req |-> None, wmsData |-> None, extractedCode |-> "",
   extractedDescription |-> "", prompt |-> "", parts |-> << >>, attempts |-> 0,
   text |-> None, calls |-> << >>, waits |-> << >>, lastErr |-> None, res |-> << >>]

\* the variables of the running invocation
Locals ==
  [pc |-> pc, req |-> req, wmsData |-> wmsData, extractedCode |-> extractedCode,
   extractedDescription |-> extractedDescription, prompt |-> prompt, parts |-> parts,
   attempts |-> attempts, text |-> text, calls |-> calls, waits |-> waits,
   lastErr |-> lastErr, res |-> res]

vars == <<handlerVars, appVars>>

Init ==
  /\ pc = "idle"
  /\ apiKey \in {None, Some("AIza-key")}
  /\ req = None
  /\ wmsData = None
  /\ extractedCode = ""
  /\ extractedDescription = ""
  /\ prompt = ""
  /\ parts = << >>
  /\ attempts = 0
  /\ text = None
  /\ calls = << >>
  /\ waits = << >>
  /\ lastErr = None
  /\ res = << >>
  /\ running = 1
  /\ suspended = IdleLocals
  /\ status = "IDLE"
  /\ analysisData = None
  /\ error = None
  /\ selectedCoords = None
  /\ isPanelOpen = FALSE
  /\ currentWmsData = None
  /\ lastClickTime = 0
  /\ now = DebounceMs
  /\ fetching = {}
  /\ clicked = << >>
  /\ pending = {}
  /\ answer = None
  /\ issued = 0
  /\ selection = 0
  /\ shownFrom = [data |-> 0, error |-> 0, status |-> 0]

\* res.status(code).json(body)
Send(code, body) == res' = Append(res, [status |-> code, body |-> body])

ErrorBody(message) == JObj(<<JMember("error", JStr(message))>>)

\* the outer catch, lines 419-425, for an Error with this message
Catch(message) ==
  /\ Send(500, ErrorBody(IF message # "" THEN message ELSE UnknownErrorMessage))
  /\ pc' = "done"

\* text is a non-empty string
HasText(t) == t # None /\ t[1] # ""

\* the rate-limit signal of an error message
QuotaSignal(message) == Includes(message, "429") \/ Includes(message, "quota")

\* the capacity signal of an error message
OverloadSignal(message) == Includes(message, "503") \/ Includes(message, "Overloaded")

\* history: how a call ended.  A failure is of one class: quota if it
\* carries the rate-limit signal, else overload if it carries the capacity
\* signal, else other.
CallResult(o) ==
  IF o.kind = "response" THEN (IF HasText(o.text) THEN "text" ELSE "empty")
  ELSE IF QuotaSignal(o.message) THEN "quota"
  ELSE IF OverloadSignal(o.message) THEN "overload"
  ELSE "other"

\* CatchAttempt surfacing an overload at once, on any attempt
CatchAttemptOverloadFatal(message, n) ==
  IF IsQuotaError(message)
  THEN [throw |-> TRUE, message |-> QuotaMessage, wait |-> 0]
  ELSE IF IsOverloadError(message)
  THEN [throw |-> TRUE, message |-> OverloadedMessage, wait |-> 0]
  ELSE IF n = maxAttempts
  THEN [throw |-> TRUE, message |-> message, wait |-> 0]
  ELSE [throw |-> FALSE, message |-> "", wait |-> BackoffBase * n]

\* CatchAttempt retrying overloads only: any other error is re-thrown at once
CatchAttemptNoRetry(message, n) ==
  IF IsQuotaError(message)
  THEN [throw |-> TRUE, message |-> QuotaMessage, wait |-> 0]
  ELSE IF IsOverloadError(message)
  THEN IF n = maxAttempts
       THEN [throw |-> TRUE, message |-> OverloadedMessage, wait |-> 0]
       ELSE [throw |-> FALSE, message |-> "", wait |-> BackoffBase * n]
  ELSE [throw |-> TRUE, message |-> message, wait |-> 0]

\* the catch block of lines 349-367 for an Error with this message caught at
\* attempt n: what it throws, or the backoff it waits before the next attempt
CatchAttempt(message, n) ==
  IF IsQuotaError(message)
  THEN [throw |-> TRUE, message |-> QuotaMessage, wait |-> 0]
  ELSE IF n = maxAttempts
  THEN IF IsOverloadError(message)
       THEN [throw |-> TRUE, message |-> OverloadedMessage, wait |-> 0]
       ELSE [throw |-> TRUE, message |-> message, wait |-> 0]
  ELSE [throw |-> FALSE, message |-> "", wait |-> BackoffBase * n]

\* lines 347-348 and 340, 370: where the handler goes after attempt n
\* resolved with text t, with the fallback taken whenever the budget is used
LoopExitFallbackAtBudget(t, n) ==
  IF n < maxAttempts THEN (IF HasText(t) THEN "normalizing" ELSE "inferring")
  ELSE "fallback"

\* lines 347-348 and 340, 370: where the handler goes after attempt n
\* resolved with text t
LoopExit(t, n) ==
  IF HasText(t) THEN "normalizing"
  ELSE IF n < maxAttempts THEN "inferring"
  ELSE "fallback"

\* the fallback call sending the parts of the attempts
FallbackContentsWithImage(p, ps) == ps

\* line 376: the contents of the fallback call
FallbackContents(p, ps) == << [kind |-> "text", mimeType |-> "", data |-> p] >>

\* NormalizeData answering an unparsable reply with an empty record
NormalizeDataLenient(data, lat, lng) ==
  IF ~data.ok
  THEN [status |-> 200, message |-> "", body |-> Result(JObj(<< >>), lat, lng)]
  ELSE IF Nullish(Some(data.val))
  THEN [status |-> 500, message |-> NullDataMessage, body |-> JNull]
  ELSE [status |-> 200, message |-> "", body |-> Result(data.val, lat, lng)]

\* lines 396-417 for the outcome of JSON.parse: the response it leads to
NormalizeData(data, lat, lng) ==
  IF ~data.ok
  THEN [status |-> 500, message |-> InvalidFormatMessage, body |-> JNull]
  ELSE IF Nullish(Some(data.val))
  THEN [status |-> 500, message |-> NullDataMessage, body |-> JNull]
  ELSE [status |-> 200, message |-> "", body |-> Result(data.val, lat, lng)]

\* lines 384-417: the response that normalizing this text ends with
NormalizeOutcome(t, lat, lng) ==
  IF ~HasText(t) THEN [status |-> 500, message |-> EmptyResponseMessage, body |-> JNull]
  ELSE NormalizeData(JSONparse(CleanResponse(t[1])), lat, lng)

\* Receive without the return of lines 187 and 193: the handler goes on
\* after the error response
ReceiveWithoutReturn(r) ==
  /\ pc = "idle"
  /\ req' = Some(r)
  /\ wmsData' = r.wmsData
  /\ IF r.method # "POST"
     THEN Send(405, ErrorBody(MethodNotAllowedMessage)) /\ pc' = "collecting"
     ELSE IF apiKey = None \/ apiKey[1] = ""
     THEN Send(500, ErrorBody(ApiKeyMessage)) /\ pc' = "collecting"
     ELSE pc' = "collecting" /\ res' = res
  /\ UNCHANGED <<appVars, running, suspended, apiKey, extractedCode, extractedDescription, prompt, parts,
                 attempts, text, calls, waits, lastErr>>

\* lines 186-197: the request arrives; method and API key are checked
Receive(r) ==
  /\ pc = "idle"
  /\ req' = Some(r)
  /\ wmsData' = r.wmsData
  /\ IF r.method # "POST"
     THEN Send(405, ErrorBody(MethodNotAllowedMessage)) /\ pc' = "done"
     ELSE IF apiKey = None \/ apiKey[1] = ""
     THEN Send(500, ErrorBody(ApiKeyMessage)) /\ pc' = "done"
     ELSE pc' = "collecting" /\ res' = res
  /\ UNCHANGED <<appVars, running, suspended, apiKey, extractedCode, extractedDescription, prompt, parts,
                 attempts, text, calls, waits, lastErr>>

\* CollectEvidence without the try/catch of lines 221-233: an exception of
\* the JSON path fails the request
CollectEvidenceUncaught ==
  /\ pc = "collecting"
  /\ \E e \in {Extract(wmsData)} :
         /\ wmsData' = IF wmsData = None THEN None
                       ELSE Some([wmsData[1] EXCEPT !.rawResponse = e.rawResponse[1]])
         /\ extractedCode' = e.extractedCode
         /\ extractedDescription' = e.extractedDescription
  /\ IF wmsData # None /\ wmsData[1].rawResponse # ""
        /\ ~isInvalidBrgm(wmsData[1].rawResponse)
        /\ ExtractJson(wmsData[1].rawResponse).threw
     THEN Catch("Unexpected token in JSON")
     ELSE pc' = "synthesizing" /\ res' = res
  /\ UNCHANGED <<appVars, running, suspended, apiKey, req, prompt, parts, attempts, text, calls, waits, lastErr>>

\* lines 203-242
CollectEvidence ==
  /\ pc = "collecting"
  /\ \E e \in {Extract(wmsData)} :
         /\ wmsData' = IF wmsData = None THEN None
                       ELSE Some([wmsData[1] EXCEPT !.rawResponse = e.rawResponse[1]])
         /\ extractedCode' = e.extractedCode
         /\ extractedDescription' = e.extractedDescription
  /\ pc' = "synthesizing"
  /\ UNCHANGED <<appVars, running, suspended, apiKey, req, prompt, parts, attempts, text, calls, waits, lastErr, res>>

\* lines 244-338
Synthesize ==
  /\ pc = "synthesizing"
  /\ LET manualCode == IF wmsData = None THEN None ELSE wmsData[1].manualCode
         rawResponse == IF wmsData = None THEN None ELSE Some(wmsData[1].rawResponse)
         image == IF wmsData = None THEN None ELSE wmsData[1].mapImageBase64
         b == Brief(manualCode, extractedCode, extractedDescription, rawResponse)
         p == Prompt(req[1].lat, req[1].lng, b.wmsInfo, b.instructions)
     IN  /\ prompt' = p
         /\ parts' = Parts(image, p)
  /\ attempts' = 0
  /\ text' = None
  /\ pc' = "inferring"
  /\ UNCHANGED <<appVars, running, suspended, apiKey, req, wmsData, extractedCode, extractedDescription,
                 calls, waits, lastErr, res>>

\* lines 340-368: one iteration of the retry loop, with its backoff wait
Attempt(o) ==
  /\ pc = "inferring"
  /\ attempts < maxAttempts
  /\ attempts' = attempts + 1
  /\ calls' = Append(calls, [attempt |-> attempts + 1, contents |-> parts,
                             result |-> CallResult(o)])
  /\ IF o.kind = "response"
     THEN /\ text' = o.text
          /\ lastErr' = None
          /\ waits' = waits
          /\ res' = res
          /\ pc' = LoopExit(o.text, attempts + 1)
     ELSE LET c == CatchAttempt(o.message, attempts + 1)
          IN  /\ text' = text
              /\ lastErr' = Some(o.message)
              /\ IF c.throw
                 THEN Catch(c.message) /\ waits' = waits
                 ELSE /\ waits' = Append(waits, c.wait)
                      /\ res' = res
                      /\ pc' = LoopExit(text, attempts + 1)
  /\ UNCHANGED <<appVars, running, suspended, apiKey, req, wmsData, extractedCode, extractedDescription, prompt, parts>>

\* Fallback without the try/catch of lines 373-381: an error of the call
\* reaches the outer catch
FallbackUncaught(o) ==
  /\ pc = "fallback"
  /\ calls' = Append(calls, [attempt |-> 0, contents |-> FallbackContents(prompt, parts),
                             result |-> CallResult(o)])
  /\ text' = IF o.kind = "response" THEN o.text ELSE text
  /\ lastErr' = IF o.kind = "error" THEN Some(o.message) ELSE None
  /\ IF o.kind = "error" THEN Catch(o.message) ELSE pc' = "normalizing" /\ res' = res
  /\ UNCHANGED <<appVars, running, suspended, apiKey, req, wmsData, extractedCode, extractedDescription, prompt,
                 parts, attempts, waits>>

\* lines 370-382: the call without the image, its error swallowed
Fallback(o) ==
  /\ pc = "fallback"
  /\ calls' = Append(calls, [attempt |-> 0, contents |-> FallbackContents(prompt, parts),
                             result |-> CallResult(o)])
  /\ text' = IF o.kind = "response" THEN o.text ELSE text
  /\ lastErr' = IF o.kind = "error" THEN Some(o.message) ELSE None
  /\ pc' = "normalizing"
  /\ UNCHANGED <<appVars, running, suspended, apiKey, req, wmsData, extractedCode, extractedDescription, prompt,
                 parts, attempts, waits, res>>

\* Normalize overwriting the record's code with a valid extracted code
NormalizeForceCode ==
  /\ pc = "normalizing"
  /\ \E n \in {NormalizeOutcome(text, req[1].lat, req[1].lng)} :
         IF n.status = 200
         THEN /\ Send(200, IF extractedCode # ""
                           THEN JObj(SetProp(n.body.items, "code", JStr(extractedCode)))
                           ELSE n.body)
              /\ pc' = "done"
         ELSE Catch(n.message)
  /\ UNCHANGED <<appVars, running, suspended, apiKey, req, wmsData, extractedCode, extractedDescription, prompt,
                 parts, attempts, text, calls, waits, lastErr>>

\* lines 384-417
Normalize ==
  /\ pc = "normalizing"
  /\ \E n \in {NormalizeOutcome(text, req[1].lat, req[1].lng)} :
         IF n.status = 200
         THEN Send(200, n.body) /\ pc' = "done"
         ELSE Catch(n.message)
  /\ UNCHANGED <<appVars, running, suspended, apiKey, req, wmsData, extractedCode, extractedDescription, prompt,
                 parts, attempts, text, calls, waits, lastErr>>

Next ==
  \/ \E r \in Requests : Receive(r)
  \/ CollectEvidence
  \/ Synthesize
  \/ \E o \in Outcomes : Attempt(o)
  \/ \E o \in Outcomes : Fallback(o)
  \/ Normalize

Spec == Init /\ [][Next]_vars

\* requests of the extractor's input set, up to the first inference call
NextExtract ==
  \/ \E r \in ExtractRequests : Receive(r)
  \/ CollectEvidence
  \/ Synthesize

SpecExtract == Init /\ [][NextExtract]_vars

\* requests of the normalizer's input set, answered at the first attempt
NextClean ==
  \/ \E r \in CleanRequests : Receive(r)
  \/ CollectEvidence
  \/ Synthesize
  \/ \E o \in CleanOutcomes : Attempt(o)
  \/ Normalize

SpecClean == Init /\ [][NextClean]_vars

(***************************************************************************)
(* Two invocations of the handler on one event loop.  Every variable of    *)
(* the handler is declared inside the function (lines 190-410) and the     *)
(* body and response objects belong to the request, so that each           *)
(* invocation has its own; the running one gives way to the other where it *)
(* awaits: the inference call of line 343, the backoff of line 366, the    *)
(* call of line 374, or its end.                                           *)
(***************************************************************************)
\* where an invocation can be while the other one runs
AwaitPoints == {"inferring", "fallback", "done"}

\* two requests that differ in coordinates, evidence, image and manual code
PairRequests ==
  { [method |-> "POST", lat |-> 4660334, lng |-> -188838,
     wmsData |-> Some([rawResponse |-> "NOTATION: e5-4",
                       mapImageBase64 |-> Some("/9j/4AAQSkZJRg"),
                       manualCode |-> None])],
    [method |-> "POST", lat |-> 4610000, lng |-> 250000,
     wmsData |-> Some([rawResponse |-> "Aucune information pour ce point",
                       mapImageBase64 |-> None,
                       manualCode |-> Some("J9ad")])] }

\* a reply with a record, a response without text and a capacity error
PairOutcomes ==
  { [kind |-> "response", text |-> Some(CompleteReply), message |-> ""],
    [kind |-> "response", text |-> None, message |-> ""],
    [kind |-> "error", text |-> None, message |-> "got status: 503 Service Unavailable"] }

\* Switch with the attempt counter and the reply text kept in place, as
\* variables of the module would be
SwitchSharingLoopState ==
  /\ pc \in AwaitPoints
  /\ suspended.pc \in AwaitPoints \cup {"idle"}
  /\ suspended.pc # "done"
  /\ running' = 3 - running
  /\ suspended' = Locals
  /\ pc' = suspended.pc
  /\ req' = suspended.req
  /\ wmsData' = suspended.wmsData
  /\ extractedCode' = suspended.extractedCode
  /\ extractedDescription' = suspended.extractedDescription
  /\ prompt' = suspended.prompt
  /\ parts' = suspended.parts
  /\ attempts' = attempts
  /\ text' = text
  /\ calls' = suspended.calls
  /\ waits' = suspended.waits
  /\ lastErr' = suspended.lastErr
  /\ res' = suspended.res
  /\ UNCHANGED <<appVars, apiKey>>

\* the running invocation awaits or has ended, and the event loop runs the
\* other one, which has work to do: each goes on with its own variables
Switch ==
  /\ pc \in AwaitPoints
  /\ suspended.pc \in AwaitPoints \cup {"idle"}
  /\ suspended.pc # "done"
  /\ running' = 3 - running
  /\ suspended' = Locals
  /\ pc' = suspended.pc
  /\ req' = suspended.req
  /\ wmsData' = suspended.wmsData
  /\ extractedCode' = suspended.extractedCode
  /\ extractedDescription' = suspended.extractedDescription
  /\ prompt' = suspended.prompt
  /\ parts' = suspended.parts
  /\ attempts' = suspended.attempts
  /\ text' = suspended.text
  /\ calls' = suspended.calls
  /\ waits' = suspended.waits
  /\ lastErr' = suspended.lastErr
  /\ res' = suspended.res
  /\ UNCHANGED <<appVars, apiKey>>

NextPair ==
  \/ \E r \in PairRequests : Receive(r)
  \/ CollectEvidence
  \/ Synthesize
  \/ \E o \in PairOutcomes : Attempt(o)
  \/ \E o \in PairOutcomes : Fallback(o)
  \/ Normalize
  \/ Switch

SpecPair == Init /\ [][NextPair]_vars

\* the step out of "collecting": CollectEvidence is the only step there, it is
\* enabled whenever pc = "collecting", and every step of it is this step
LeaveCollecting == pc = "collecting" /\ pc' = "synthesizing"

\* the step out of "normalizing": Normalize is the only step there, it is
\* enabled whenever pc = "normalizing", and it ends in a response either way
LeaveNormalizing == pc = "normalizing" /\ pc' = "done"

\* the handler's own steps are taken once enabled, and every inference call
\* returns or fails
SpecLive ==
  /\ Init
  /\ [][Next]_vars
  /\ WF_pc(LeaveCollecting)
  /\ WF_vars(Synthesize)
  /\ WF_vars(\E o \in Outcomes : Attempt(o))
  /\ WF_vars(\E o \in Outcomes : Fallback(o))
  /\ WF_pc(LeaveNormalizing)

(***************************************************************************)
(* The caller: MapEvents and App.                                          *)
(***************************************************************************)
\* the clock advances by half the debounce delay
TickMs == DebounceMs \div 2

\* the clock stops here
MaxNow == 2000

\* the number of analysis calls made in a behaviour
MaxIssued == 2

\* the number of clicks made in a behaviour
MaxClicks == 3

\* the points clicked
AppCoords == { [lat |-> 4885000, lng |-> 235000], [lat |-> 4376000, lng |-> 396000] }

\* what fetchBrgmData returns; None stands for null and for the exception
\* that lines 225-227 turn into null
FetchedWmsDatas ==
  { None,
    Some([rawResponse |-> "NOTATION: e5-4", mapImageBase64 |-> Some("/9j/4AAQSkZJRg"),
          manualCode |-> None]) }

\* the texts typed in the panel's correction field
EditCodes == { "   ", " J9ad\n", "J9ad" }

\* the only message analyzeGeologyAtLocation throws
ServiceFailureMessage == "Impossible d'analyser la géologie."

\* the records the service may answer a call with: the coordinates are the
\* call's own
Analyses(call) ==
  { [code |-> "e5-4", coords |-> [lat |-> call.lat, lng |-> call.lng]] }

\* what fetch('/api/analyze-geology') ends with for a call: a 200 with a
\* record, a 500 with the message of a classified failure, or an answer
\* without error field that did not come from the handler
Responses(call) ==
  { [status |-> 200, error |-> None, data |-> Some(d)] : d \in Analyses(call) }
  \cup { [status |-> 500, error |-> Some(m), data |-> None] :
           m \in {QuotaMessage, OverloadedMessage} }
  \cup { [status |-> 502, error |-> None, data |-> None] }

\* geminiService.ts lines 5-16: the message of the Error thrown inside the
\* try, None when nothing is thrown
ThrownInTry(response) ==
  IF response.status \notin 200..299
  THEN Some(IF response.error # None /\ response.error[1] # ""
            THEN response.error[1]
            ELSE "Erreur lors de l'analyse")
  ELSE None

\* geminiService.ts lines 3-24: the record returned, or the message of the
\* Error that the catch of lines 20-23 throws in place of the one it caught
analyzeGeologyAtLocation(response) ==
  IF ThrownInTry(response) = None
  THEN [ok |-> TRUE, data |-> response.data[1], message |-> ""]
  ELSE [ok |-> FALSE, data |-> [code |-> "", coords |-> [lat |-> 0, lng |-> 0]],
        message |-> ServiceFailureMessage]

\* err.message || fallback
ErrorShown(message, by) ==
  IF message # "" THEN message
  ELSE IF by = "select" THEN "Une erreur est survenue lors de l'analyse."
  ELSE "Une erreur est survenue lors de la correction."

\* { ...(currentWmsData || { rawResponse: '' }), manualCode }
UpdatedWmsData(current, manualCode) ==
  IF current = None
  THEN Some([rawResponse |-> "", mapImageBase64 |-> None, manualCode |-> Some(manualCode)])
  ELSE Some([current[1] EXCEPT !.manualCode = Some(manualCode)])

\* time passes, as long as a click may follow
Tick ==
  /\ now < MaxNow
  /\ Len(clicked) < MaxClicks
  /\ now' = now + TickMs
  /\ UNCHANGED <<status, analysisData, error, selectedCoords, isPanelOpen,
                 currentWmsData, lastClickTime, fetching, clicked, pending, answer,
                 issued, selection, shownFrom>>
  /\ UNCHANGED handlerVars

\* Click without the guard of lines 212-215: every click is accepted
ClickWithoutDebounce(c) ==
  /\ Len(clicked) < MaxClicks
  /\ Cardinality(fetching) + issued < MaxIssued
  /\ clicked' = Append(clicked, [at |-> now, accepted |-> TRUE])
  /\ lastClickTime' = now
  /\ fetching' = fetching \cup { [at |-> now, coords |-> c] }
  /\ UNCHANGED <<status, analysisData, error, selectedCoords, isPanelOpen,
                 currentWmsData, now, pending, answer, issued, selection, shownFrom>>
  /\ UNCHANGED handlerVars

\* part_001 lines 210-224: a click within the debounce delay returns at once;
\* another one stamps the guard and starts fetchBrgmData
Click(c) ==
  /\ Len(clicked) < MaxClicks
  /\ IF now - lastClickTime < DebounceMs
     THEN /\ clicked' = Append(clicked, [at |-> now, accepted |-> FALSE])
          /\ UNCHANGED <<lastClickTime, fetching>>
     ELSE /\ Cardinality(fetching) + issued < MaxIssued
          /\ clicked' = Append(clicked, [at |-> now, accepted |-> TRUE])
          /\ lastClickTime' = now
          /\ fetching' = fetching \cup { [at |-> now, coords |-> c] }
  /\ UNCHANGED <<status, analysisData, error, selectedCoords, isPanelOpen,
                 currentWmsData, now, pending, answer, issued, selection, shownFrom>>
  /\ UNCHANGED handlerVars

\* handleLocationSelect leaving the status as it is
handleLocationSelectKeepStatus(f, w) ==
  /\ f \in fetching
  /\ fetching' = fetching \ {f}
  /\ selectedCoords' = Some(f.coords)
  /\ currentWmsData' = w
  /\ analysisData' = None
  /\ error' = None
  /\ isPanelOpen' = TRUE
  /\ issued' = issued + 1
  /\ pending' = pending \cup { [id |-> issued + 1, by |-> "select",
                                lat |-> f.coords.lat, lng |-> f.coords.lng,
                                wmsData |-> w] }
  /\ selection' = issued + 1
  /\ shownFrom' = [data |-> 0, error |-> 0, status |-> issued + 1]
  /\ UNCHANGED <<status, lastClickTime, now, clicked, answer>>
  /\ UNCHANGED handlerVars

\* part_001 lines 225-229 and App.tsx lines 25-35: fetchBrgmData is over,
\* the selection is stored and the analysis call made
handleLocationSelect(f, w) ==
  /\ f \in fetching
  /\ fetching' = fetching \ {f}
  /\ selectedCoords' = Some(f.coords)
  /\ currentWmsData' = w
  /\ status' = "LOADING"
  /\ analysisData' = None
  /\ error' = None
  /\ isPanelOpen' = TRUE
  /\ issued' = issued + 1
  /\ pending' = pending \cup { [id |-> issued + 1, by |-> "select",
                                lat |-> f.coords.lat, lng |-> f.coords.lng,
                                wmsData |-> w] }
  /\ selection' = issued + 1
  /\ shownFrom' = [data |-> 0, error |-> 0, status |-> issued + 1]
  /\ UNCHANGED <<lastClickTime, now, clicked, answer>>
  /\ UNCHANGED handlerVars

\* App.tsx lines 45-59: a correction of the code for the selected point;
\* without a selected point the function returns at once
handleManualCorrection(manualCode) ==
  /\ issued < MaxIssued
  /\ IF selectedCoords = None
     THEN UNCHANGED appVars
     ELSE /\ status' = "LOADING"
          /\ error' = None
          /\ issued' = issued + 1
          /\ pending' = pending \cup { [id |-> issued + 1, by |-> "manual",
                                        lat |-> selectedCoords[1].lat,
                                        lng |-> selectedCoords[1].lng,
                                        wmsData |-> UpdatedWmsData(currentWmsData, manualCode)] }
          /\ shownFrom' = [shownFrom EXCEPT !.error = 0, !.status = issued + 1]
          /\ UNCHANGED <<analysisData, selectedCoords, isPanelOpen, currentWmsData,
                         lastClickTime, now, fetching, clicked, answer, selection>>
  /\ UNCHANGED handlerVars

\* handleEditSubmit passing the text on as typed
handleEditSubmitUntrimmed(editCode) ==
  IF editCode # ""
  THEN handleManualCorrection(editCode)
  ELSE UNCHANGED vars

\* part_000 lines 90-97: the panel's form is submitted with this text in its
\* field
handleEditSubmit(editCode) ==
  IF Trim(editCode) # ""
  THEN handleManualCorrection(Trim(editCode))
  ELSE UNCHANGED vars

\* App.tsx lines 36-37 and 60-61: the call returned a record
Resolved(call, response) ==
  /\ call \in pending
  /\ analyzeGeologyAtLocation(response).ok
  /\ pending' = pending \ {call}
  /\ answer' = Some(response)
  /\ analysisData' = Some(analyzeGeologyAtLocation(response).data)
  /\ status' = "SUCCESS"
  /\ shownFrom' = [shownFrom EXCEPT !.data = call.id, !.status = call.id]
  /\ UNCHANGED <<error, selectedCoords, isPanelOpen, currentWmsData, lastClickTime,
                 now, fetching, clicked, issued, selection>>
  /\ UNCHANGED handlerVars

\* App.tsx lines 38-42 and 62-66: the call threw
Rejected(call, response) ==
  /\ call \in pending
  /\ ~analyzeGeologyAtLocation(response).ok
  /\ pending' = pending \ {call}
  /\ answer' = Some(response)
  /\ error' = Some(ErrorShown(analyzeGeologyAtLocation(response).message, call.by))
  /\ status' = "ERROR"
  /\ shownFrom' = [shownFrom EXCEPT !.error = call.id, !.status = call.id]
  /\ UNCHANGED <<analysisData, selectedCoords, isPanelOpen, currentWmsData,
                 lastClickTime, now, fetching, clicked, issued, selection>>
  /\ UNCHANGED handlerVars

NextApp ==
  \/ Tick
  \/ \E c \in AppCoords : Click(c)
  \/ \E f \in fetching, w \in FetchedWmsDatas : handleLocationSelect(f, w)
  \/ \E e \in EditCodes : handleEditSubmit(e)
  \/ \E call \in pending : \E r \in Responses(call) : Resolved(call, r)
  \/ \E call \in pending : \E r \in Responses(call) : Rejected(call, r)

\* the browser's side: the server is configured
InitApp == Init /\ apiKey # None

SpecApp == InitApp /\ [][NextApp]_vars

(***************************************************************************)
(* Properties.                                                             *)
(***************************************************************************)
\* the wmsData of the request body as it arrived
BodyWms == req[1].wmsData

ManualPresent ==
  BodyWms # None /\ BodyWms[1].manualCode # None /\ BodyWms[1].manualCode[1] # ""

\* the brief has just been built and no call has been made yet
BriefBuilt == pc = "inferring" /\ calls = << >>

\* the opening of the instruction block of each resolution case
CaseHeads ==
  [ManualOverride |-> "INSTRUCTIONS:\n1. IDENTITY: You MUST output code \"",
   DatabaseAuthoritative |-> "INSTRUCTIONS:\n1. IDENTITY (CRUCIAL):",
   RawTextOnly |-> "INSTRUCTIONS:\n1. Identify the exact code using the DB_HINT text first.",
   NoEvidence |-> "INSTRUCTIONS:\n1. Identify the geological code strictly from the EXACT CENTER"]

\* the resolution cases whose instruction block the prompt carries
SentCases == {c \in DOMAIN CaseHeads : Includes(prompt, CaseHeads[c])}

\* C1: the brief is of exactly one resolution case, fixed by (manual code
\* present, valid code extracted, raw text left after filtering) in the
\* priority manual > database > raw text > none; all rows of the table.
C1_CaseSelection ==
  BriefBuilt =>
    LET m == ManualPresent
        v == extractedCode # ""
        r == wmsData # None /\ wmsData[1].rawResponse # ""
    IN  /\ Cardinality(SentCases) = 1
        /\ (m /\ v /\ r) => SentCases = {"ManualOverride"}
        /\ (m /\ v /\ ~r) => SentCases = {"ManualOverride"}
        /\ (m /\ ~v /\ r) => SentCases = {"ManualOverride"}
        /\ (m /\ ~v /\ ~r) => SentCases = {"ManualOverride"}
        /\ (~m /\ v /\ r) => SentCases = {"DatabaseAuthoritative"}
        /\ (~m /\ v /\ ~r) => SentCases = {"DatabaseAuthoritative"}
        /\ (~m /\ ~v /\ r) => SentCases = {"RawTextOnly"}
        /\ (~m /\ ~v /\ ~r) => SentCases = {"NoEvidence"}

\* a manual code given together with a valid extracted code: manual wins
C1_Witness ==
  BriefBuilt /\ ManualPresent /\ extractedCode # "" /\ SentCases = {"ManualOverride"}

\* raw contains an invalid-layer marker, letter case ignored
HasInvalidMarker(raw) ==
  \E m \in InvalidMarkers :
    \E i \in 1..(Len(raw) - Len(m) + 1) :
      toLowerCase(SubSeq(raw, i, i + Len(m) - 1)) = m

\* the prompt of the request had it carried an empty rawResponse
PromptWithoutEvidence ==
  LET b == Brief(BodyWms[1].manualCode, "", "", Some(""))
  IN  Prompt(req[1].lat, req[1].lng, b.wmsInfo, b.instructions)

\* C2: a rawResponse with an invalid-layer marker in any letter case gives
\* no code and no description and is cleared; the brief is then neither
\* DatabaseAuthoritative nor RawTextOnly and is the very prompt of a request
\* without raw text, with or without a manual code.
C2_InvalidMarkerDiscarded ==
  (pc \in {"synthesizing", "inferring"} /\ calls = << >>
     /\ BodyWms # None /\ HasInvalidMarker(BodyWms[1].rawResponse)) =>
    /\ extractedCode = ""
    /\ extractedDescription = ""
    /\ wmsData[1].rawResponse = ""
    /\ pc = "inferring" =>
         /\ SentCases \subseteq {"ManualOverride", "NoEvidence"}
         /\ ~Includes(prompt, BodyWms[1].rawResponse)
         /\ prompt = PromptWithoutEvidence
         /\ parts[Len(parts)].data = prompt

\* a marker that is present only in another letter case, with a manual code
C2_Witness ==
  /\ BriefBuilt
  /\ BodyWms # None
  /\ HasInvalidMarker(BodyWms[1].rawResponse)
  /\ \A m \in InvalidMarkers : ~Includes(BodyWms[1].rawResponse, m)
  /\ ManualPresent
  /\ SentCases = {"ManualOverride"}

NonEmptyString(o) == o # None /\ o[1].t = "str" /\ o[1].s # ""

\* the mandatory fields of a record
Mandatory(body) ==
  /\ NonEmptyString(Get(body, "code"))
  /\ NonEmptyString(Get(body, "formation"))
  /\ NonEmptyString(Get(body, "lithology"))
  /\ NonEmptyString(Get(body, "description"))
  /\ Get(body, "paleogeography") # None
  /\ NonEmptyString(Get(Get(body, "paleogeography")[1], "environment"))

\* C3: a record is sent with status 200 only if code, formation, lithology,
\* description and paleogeography.environment are non-empty strings.
C3_OnlyCompleteRecords ==
  \A i \in 1..Len(res) : res[i].status = 200 => Mandatory(res[i].body)

\* the response of a failure with this message
Failure(message) == [status |-> 500, body |-> ErrorBody(message)]

LoopCalls == {i \in 1..Len(calls) : calls[i].attempt >= 1}

FallbackCalls == {i \in 1..Len(calls) : calls[i].attempt = 0}

HasImagePart(contents) == \E k \in 1..Len(contents) : contents[k].kind = "inlineData"

\* C4: whatever the outcomes, a request makes at most 3 attempts and at most
\* one fallback call: never more than 4 inference calls.
C4_CallBudget ==
  /\ Cardinality(LoopCalls) <= 3
  /\ Cardinality(FallbackCalls) <= 1
  /\ Len(calls) <= 4
  /\ \A i \in LoopCalls : calls[i].attempt = i

\* three attempts and the fallback call have been made
C4_Witness == Len(calls) = 4 /\ Cardinality(LoopCalls) = 3 /\ pc = "done"

\* C5: a quota failure on any attempt ends the request at once with the
\* quota message: it is the last call, and the only one when it is the first.
C5_QuotaFatal ==
  \A i \in LoopCalls :
    calls[i].result = "quota" =>
      /\ i = Len(calls)
      /\ pc = "done"
      /\ res = << Failure(QuotaMessage) >>

\* a first attempt refused for quota, the only call of the request
C5_Witness ==
  /\ Len(calls) = 1
  /\ calls[1].result = "quota"
  /\ lastErr = Some("You exceeded your current quota")
  /\ res = << Failure(QuotaMessage) >>

\* C6: an overload on attempt 1 or 2 is retried without any response, and
\* the overloaded message is sent exactly when the third attempt fails with
\* an overload.
C6_OverloadAfterBudget ==
  /\ \A i \in LoopCalls :
       (calls[i].attempt < 3 /\ calls[i].result = "overload" /\ i = Len(calls)) =>
         pc = "inferring" /\ res = << >>
  /\ (\E k \in 1..Len(res) : res[k] = Failure(OverloadedMessage)) =>
       Len(calls) = 3 /\ calls[3].attempt = 3 /\ calls[3].result = "overload"
  /\ (Len(calls) >= 3 /\ calls[3].attempt = 3 /\ calls[3].result = "overload") =>
       Len(calls) = 3 /\ pc = "done" /\ res = << Failure(OverloadedMessage) >>

\* overloaded on all three attempts
C6_Witness ==
  /\ Len(calls) = 3
  /\ \A i \in 1..3 : calls[i].result = "overload"
  /\ res = << Failure(OverloadedMessage) >>

\* what C7 says of the errors that are neither quota nor overload, an empty
\* message of a third-attempt error reaching the response as emptyAs
OtherErrorHandling(emptyAs) ==
  /\ \A i \in LoopCalls :
       (calls[i].attempt < 3 /\ calls[i].result = "other") =>
         /\ \E w \in 1..Len(waits) : waits[w] = BackoffBase * calls[i].attempt
         /\ i = Len(calls) => pc = "inferring" /\ res = << >>
  /\ \A i \in LoopCalls :
       (calls[i].attempt = 3 /\ calls[i].result = "other") =>
         /\ i = Len(calls)
         /\ pc = "done"
         /\ res = << Failure(IF lastErr[1] # "" THEN lastErr[1] ELSE emptyAs) >>

\* C7 as stated: another error is retried with backoff on attempts 1 and 2;
\* on the third attempt the request fails with that error's own message,
\* unchanged, and no fallback call is made.
C7_OtherErrorVerbatim == OtherErrorHandling("")

\* C7 as amended: the same, the message reaching the response unchanged
\* when it is non-empty and replaced by the default message when empty.
C7_OtherErrorVerbatimOrDefault == OtherErrorHandling(UnknownErrorMessage)

\* two transport errors retried, the third re-thrown with its message
C7_Witness ==
  /\ Len(calls) = 3
  /\ \A i \in 1..3 : calls[i].result = "other"
  /\ waits = << BackoffBase, 2 * BackoffBase >>
  /\ lastErr = Some("fetch failed")
  /\ res = << Failure("fetch failed") >>

BuiltFrom(body, t) ==
  LET d == JSONparse(CleanResponse(t))
  IN  /\ d.ok
      /\ d.val.t = "obj"
      /\ \A k \in Keys(d.val.items) \ {"coords", "sources"} : Get(body, k) = Get(d.val, k)

\* attempts 1 and 2 failed with a retried error and attempt 3 returned text
TwoFailuresThenText ==
  /\ Len(calls) >= 3
  /\ calls[1].result \in {"overload", "other"}
  /\ calls[2].result \in {"overload", "other"}
  /\ calls[3].attempt = 3
  /\ calls[3].result = "text"

\* C9 as stated: after two transient failures and a third attempt returning
\* usable text, the request succeeds with the record built from that reply
\* and no fallback call is made.
C9_ThirdAttemptSucceeds ==
  (TwoFailuresThenText /\ pc = "done") =>
    /\ Len(calls) = 3
    /\ Len(res) = 1
    /\ res[1].status = 200
    /\ BuiltFrom(res[1].body, text[1])

\* C9 as amended: no fallback call is made and the third reply is the one
\* normalized; the request succeeds with the record built from it when its
\* sliced text parses as a JSON object, and fails with the invalid-format
\* message when that text does not parse.
C9_ThirdAttemptNormalized ==
  (TwoFailuresThenText /\ pc \in {"normalizing", "done"}) =>
    /\ Len(calls) = 3
    /\ HasText(text)
    /\ pc = "done" =>
         LET d == JSONparse(CleanResponse(text[1]))
         IN  /\ Len(res) = 1
             /\ (d.ok /\ d.val.t = "obj") =>
                  res[1].status = 200 /\ BuiltFrom(res[1].body, text[1])
             /\ ~d.ok => res = << Failure(InvalidFormatMessage) >>

\* two failures, then a complete reply on the third attempt, sent as record
C9_Witness ==
  /\ TwoFailuresThenText
  /\ pc = "done"
  /\ Len(calls) = 3
  /\ res[1].status = 200
  /\ Mandatory(res[1].body)
  /\ BuiltFrom(res[1].body, text[1])

\* C10: a reply whose sliced text does not parse makes the request fail with
\* the invalid-format message; the call that returned it is the last call,
\* however many attempts were left.
C10_ParseFailureFatal ==
  /\ \A i \in 1..Len(calls) : calls[i].result = "text" => i = Len(calls)
  /\ (pc = "done" /\ HasText(text) /\ ~JSONparse(CleanResponse(text[1])).ok) =>
       res = << Failure(InvalidFormatMessage) >>

\* an unparsable reply to the first attempt: no second attempt is made
C10_Witness ==
  /\ pc = "done"
  /\ Len(calls) = 1
  /\ calls[1].result = "text"
  /\ ~JSONparse(CleanResponse(text[1])).ok
  /\ res = << Failure(InvalidFormatMessage) >>

DigitVal(c) == CHOOSE d \in 0..9 : NatToStr(d) = c

RECURSIVE StrToNat(_)
StrToNat(s) ==
  IF s = "" THEN 0
  ELSE 10 * StrToNat(SubSeq(s, 1, Len(s) - 1)) + DigitVal(Ch(s, Len(s)))

\* s followed by zeros up to w characters
RECURSIVE PadRight(_, _)
PadRight(s, w) == IF Len(s) >= w THEN s ELSE PadRight(s \o "0", w)

\* the number a JSON numeral denotes, in units of 10^-5
Denoted(numeral) ==
  LET neg == At(numeral, 1, "-")
      body == IF neg THEN SubSeq(numeral, 2, Len(numeral)) ELSE numeral
      dot == IndexOf(body, ".")
      int == IF dot = 0 THEN body ELSE SubSeq(body, 1, dot - 1)
      frac == IF dot = 0 THEN "" ELSE SubSeq(body, dot + 1, Len(body))
      n == StrToNat(int) * 100000 + StrToNat(PadRight(frac, 5))
  IN  IF neg THEN -n ELSE n

\* the parsed reply the response was made from
ParsedReply == JSONparse(CleanResponse(text[1]))

\* C11: every record sent has coords {lat, lng} denoting the request's own
\* latitude and longitude and an empty sources list, whatever coords or
\* sources the reply carried.
C11_CoordsAndSourcesFromRequest ==
  \A i \in 1..Len(res) :
    res[i].status = 200 =>
      LET c == Get(res[i].body, "coords")
      IN  /\ c # None
          /\ c[1].t = "obj"
          /\ Keys(c[1].items) = {"lat", "lng"}
          /\ Get(c[1], "lat")[1].t = "num"
          /\ Get(c[1], "lng")[1].t = "num"
          /\ Denoted(Get(c[1], "lat")[1].s) = req[1].lat
          /\ Denoted(Get(c[1], "lng")[1].s) = req[1].lng
          /\ Get(res[i].body, "sources") = Some(JArr(<< >>))
          /\ Cardinality({k \in 1..Len(res[i].body.items) :
                            res[i].body.items[k].s \in {"coords", "sources"}}) = 2

\* a reply carrying its own coords and a non-empty sources list was sent as
\* a record with the request's coords and no sources
C11_Witness ==
  /\ pc = "done"
  /\ res[1].status = 200
  /\ HasText(text)
  /\ ParsedReply.ok
  /\ Get(ParsedReply.val, "coords") # None
  /\ Get(ParsedReply.val, "coords") # Get(res[1].body, "coords")
  /\ Get(ParsedReply.val, "sources") # None
  /\ LengthPositive(Get(ParsedReply.val, "sources")[1])
  /\ Get(res[1].body, "sources") = Some(JArr(<< >>))
  /\ Denoted(Get(Get(res[1].body, "coords")[1], "lat")[1].s) = 4660334

\* a record was sent for a request with a valid extracted code, made from a
\* reply whose code is another one
Diverged ==
  /\ pc = "done"
  /\ Len(res) = 1
  /\ res[1].status = 200
  /\ extractedCode # ""
  /\ HasText(text)
  /\ ParsedReply.ok
  /\ Get(ParsedReply.val, "code") # Some(JStr(extractedCode))

\* C12: when a valid code was extracted and the reply's code differs from
\* it, the record carries the reply's code, not the extracted one.
C12_ReplyCodeKept ==
  Diverged =>
    /\ Get(res[1].body, "code") = Get(ParsedReply.val, "code")
    /\ Get(res[1].body, "code") # Some(JStr(extractedCode))

\* the database said j9ad, the reply says t2, the record says t2
C12_Witness ==
  /\ Diverged
  /\ extractedCode = "j9ad"
  /\ Get(ParsedReply.val, "code") = Some(JStr("t2"))
  /\ Get(res[1].body, "code") = Some(JStr("t2"))

\* the request was resolved as ManualOverride(c) or DatabaseAuthoritative(c, d)
\* and a record was sent
AuthoritativeSucceeded ==
  /\ pc = "done"
  /\ Len(res) = 1
  /\ res[1].status = 200
  /\ (ManualPresent \/ extractedCode # "")

\* the code c of the resolution case
CaseCode == IF ManualPresent THEN BodyWms[1].manualCode[1] ELSE extractedCode

\* C13 as stated: a request resolved as ManualOverride(c) or
\* DatabaseAuthoritative(c, d) that succeeds sends a record whose code is c.
C13_RecordCodeIsCaseCode ==
  AuthoritativeSucceeded => Get(res[1].body, "code") = Some(JStr(CaseCode))

\* C13 as amended: such a request sends the brief of its case, which names c
\* as the code to output, and the record's code is the code of the reply: it
\* is c exactly when the inference service returned c.
C13_BriefNamesCaseCode ==
  AuthoritativeSucceeded =>
    /\ ManualPresent =>
         /\ SentCases = {"ManualOverride"}
         /\ Includes(prompt, "The user has manually identified the code as \""
                             \o CaseCode \o "\".")
         /\ Includes(prompt, "1. IDENTITY: You MUST output code \"" \o CaseCode \o "\".")
    /\ ~ManualPresent =>
         /\ SentCases = {"DatabaseAuthoritative"}
         /\ Includes(prompt, "identifies the exact polygon as code \"" \o CaseCode
                             \o "\" (" \o extractedDescription \o ").")
         /\ Includes(prompt, "The geological code is exactly \"" \o CaseCode \o "\".")
    /\ Get(res[1].body, "code") = Get(ParsedReply.val, "code")
    /\ (Get(res[1].body, "code") = Some(JStr(CaseCode)))
         <=> (Get(ParsedReply.val, "code") = Some(JStr(CaseCode)))

\* the two scenarios: CODE t2 in the database, no manual code, an image, and
\* the reply says t2; or manual code J9ad over a database code and the reply
\* says J9ad
C13_Witness ==
  /\ AuthoritativeSucceeded
  /\ Get(res[1].body, "code") = Some(JStr(CaseCode))
  /\ \/ /\ ~ManualPresent
        /\ BodyWms[1].rawResponse = "{\"features\":[{\"properties\":{\"CODE\":\"t2\"}}]}"
        /\ BodyWms[1].mapImageBase64 # None
        /\ BodyWms[1].manualCode = None
        /\ extractedCode = "t2"
        /\ extractedDescription = ""
        /\ req[1].lat = 4610000
        /\ req[1].lng = 250000
     \/ /\ ManualPresent
        /\ CaseCode = "J9ad"
        /\ extractedCode = "j9ad"

\* the raw text of the request body as it arrived
BodyRaw == BodyWms[1].rawResponse

\* extraction is over for a request that carried evidence
Extracted == pc \in {"synthesizing", "inferring"} /\ BodyWms # None

\* the first value that is neither absent nor empty among the keys of a bag,
\* "" when there is none
FirstValue(keys, kinds) ==
  IF \E i \in 1..Len(keys) : kinds[i] \in {"string", "number"}
  THEN LET i == CHOOSE k \in 1..Len(keys) :
                  /\ kinds[k] \in {"string", "number"}
                  /\ \A j \in 1..(k - 1) : kinds[j] \notin {"string", "number"}
       IN  IF kinds[i] = "string" THEN keys[i].str ELSE keys[i].num
  ELSE ""

\* C14: for a feature collection only the first feature's bag is consulted:
\* the code is the first non-empty value among NOTATION, CODE, notation, code,
\* the description the first non-empty value among DESCR, DESCRIPTION, descr,
\* and a code found this way is valid (extractedCode is set).
C14_FirstFeatureAliases ==
  Extracted =>
    \A b \in Bags :
      BodyRaw = BagText(b) =>
        /\ extractedCode = FirstValue(CodeKeys, b.code)
        /\ extractedDescription = FirstValue(DescKeys, b.desc)
        /\ wmsData[1].rawResponse = BodyRaw

\* C15 as stated: for a raw text that is not JSON and has no invalid marker
\* the code is that of the earliest key=value occurrence of "notation" or
\* "code" in the text, letter case ignored, and a code found is valid.
C15_EarliestOccurrenceWins ==
  Extracted =>
    \A c \in TextCases :
      BodyRaw = c.raw =>
        /\ extractedCode = c.earliest
        /\ wmsData[1].rawResponse = BodyRaw

\* C15 as amended: the code is that of the leftmost key=value occurrence of
\* "notation", letter case ignored, and that of the leftmost occurrence of
\* "code" only when there is no occurrence of "notation"; a code found is
\* valid.
C15_NotationBeforeCode ==
  Extracted =>
    \A c \in TextCases :
      BodyRaw = c.raw =>
        /\ extractedCode = c.code
        /\ extractedDescription = ""
        /\ wmsData[1].rawResponse = BodyRaw
        /\ (c.code # "" /\ pc = "inferring") => SentCases = {"DatabaseAuthoritative"}

\* the text "CODE=x1; NOTATION=y2" gave the code y2, and NOTATION: e5-4 the
\* code e5-4
C15_Witness ==
  /\ Extracted
  /\ pc = "inferring"
  /\ \/ BodyRaw = "CODE=x1; NOTATION=y2" /\ extractedCode = "y2"
     \/ BodyRaw = "NOTATION: e5-4" /\ extractedCode = "e5-4"

\* the raw text has none of the markers of isInvalidBrgm, in any letter case
NoMarker(raw) ==
  \A m \in {"layernotdefined", "non défini", "sans géométrie", "inconnu"} :
    ~Includes(toLowerCase(raw), m)

\* what C16 says, the brief of RawTextOnly carrying the first limit
\* characters of the raw text
NoCodeHandling(limit) ==
  /\ (req # None /\ req[1].method = "POST" /\ apiKey # None /\ calls = << >>) =>
       res = << >> /\ pc \in {"collecting", "synthesizing", "inferring"}
  /\ (Extracted /\ BodyRaw # "" /\ NoMarker(BodyRaw) /\ extractedCode = "") =>
       /\ wmsData[1].rawResponse = BodyRaw
       /\ (pc = "inferring" /\ ~ManualPresent) =>
            /\ SentCases = {"RawTextOnly"}
            /\ Includes(prompt, "DB_HINT: Database raw response: "
                                \o SubSeq(BodyRaw, 1, IF Len(BodyRaw) < limit
                                                      THEN Len(BodyRaw) ELSE limit)
                                \o "\n")
            /\ parts[Len(parts)].data = prompt

\* C16 as stated: extraction never fails the request; a raw text without
\* marker that yields no code is kept, and without manual code the request
\* is resolved as RawTextOnly carrying that raw text and goes on to the
\* inference call.
C16_RawTextCarried == NoCodeHandling(Len(LongText))

\* C16 as amended: the same, the brief carrying the first 500 characters of
\* the raw text.
C16_RawTextPrefixCarried == NoCodeHandling(500)

\* a raw text of more than 500 characters without code, resolved as
\* RawTextOnly and ready for the inference call
C16_Witness ==
  /\ Extracted
  /\ pc = "inferring"
  /\ BodyRaw = LongText
  /\ Len(BodyRaw) > 500
  /\ extractedCode = ""
  /\ SentCases = {"RawTextOnly"}
  /\ res = << >>

\* raw contains one of the markers, letter case ignored
HasMarkerOf(markers, raw) == \E m \in markers : Includes(toLowerCase(raw), m)

\* what C17 says of the raw texts carrying one of these markers: no code and
\* no description are extracted, the raw text is dropped and the brief does
\* not carry it
MarkersDiscarded(markers) ==
  (Extracted /\ HasMarkerOf(markers, BodyRaw)) =>
    /\ extractedCode = ""
    /\ extractedDescription = ""
    /\ wmsData[1].rawResponse = ""
    /\ pc = "inferring" =>
         /\ ~Includes(prompt, BodyRaw)
         /\ ~Includes(prompt, "DB_HINT")
         /\ ~Includes(prompt, "DB_EXACT_REFERENCE")
         /\ SentCases \subseteq {"ManualOverride", "NoEvidence"}

\* C17 as stated: a raw text containing, in any letter case, one of "layer
\* not defined", "undefined", "no geometry", "unknown" yields valid=false and
\* is not passed downstream as raw text.
C17_EnglishMarkersDiscarded ==
  MarkersDiscarded({"layer not defined", "undefined", "no geometry", "unknown"})

\* C17 as amended: the same of the markers "layernotdefined", "non défini",
\* "sans géométrie", "inconnu".
C17_BrgmMarkersDiscarded ==
  MarkersDiscarded({"layernotdefined", "non défini", "sans géométrie", "inconnu"})

\* a JSON text with a code whose description says "Age Inconnu": nothing of
\* it is extracted or sent
C17_Witness ==
  /\ Extracted
  /\ pc = "inferring"
  /\ BodyRaw = "{\"features\":[{\"properties\":{\"NOTATION\":\"c6b\",\"DESCR\":\"Age Inconnu\"}}]}"
  /\ extractedCode = ""
  /\ wmsData[1].rawResponse = ""
  /\ SentCases = {"NoEvidence"}

\* the text sent from the instruction block on
InstructionBlock == SubSeq(prompt, IndexOf(prompt, "INSTRUCTIONS:\n"), Len(prompt))

Stage(p) ==
  CASE p = "idle" -> 0
    [] p = "collecting" -> 1
    [] p = "synthesizing" -> 2
    [] p \in {"inferring", "fallback"} -> 3
    [] p = "normalizing" -> 4
    [] p = "done" -> 5

\* a step stays in its stage, enters the next one, or ends the request with
\* a failure; a record is sent from NORMALIZING only
StageStep ==
  /\ \/ Stage(pc') = Stage(pc)
     \/ Stage(pc') = Stage(pc) + 1
     \/ pc' = "done" /\ Len(res') = 1 /\ res'[1].status # 200
  /\ Len(res') > Len(res) => pc' = "done"
  /\ (Len(res') > Len(res) /\ res'[Len(res')].status = 200) => pc = "normalizing"

\* one response once the request has ended, none before: a record under
\* status 200, or an error message and nothing else under another status
OneResponse ==
  /\ pc # "done" => res = << >>
  /\ pc = "done" =>
       /\ Len(res) = 1
       /\ IF res[1].status = 200
          THEN /\ res[1].body.t = "obj"
               /\ {"coords", "sources"} \subseteq Keys(res[1].body.items)
          ELSE /\ res[1].status \in {405, 500}
               /\ Keys(res[1].body.items) = {"error"}
               /\ Get(res[1].body, "error")[1].t = "str"

\* C19: a request passes COLLECTING_EVIDENCE, SYNTHESIZING, INFERRING and
\* NORMALIZING in that order without ever going back, ends with exactly one
\* response, a record or an error without record, and, every inference call
\* returning or failing, does end.
C19_StagesAndTermination ==
  /\ [][StageStep]_vars
  /\ []OneResponse
  /\ (req # None) ~> (pc = "done")

\* a request that went through every stage, the fallback call included, and
\* ended with a record
C19_Witness ==
  /\ pc = "done"
  /\ Len(res) = 1
  /\ res[1].status = 200
  /\ Len(calls) = 4
  /\ HasImagePart(calls[1].contents)
  /\ extractedCode # ""

\* C20: once a newer selection is made, the analysis data, the error and the
\* status shown never come from a call made before that selection.
C20_StaleResultsDiscarded ==
  \A k \in {"data", "error", "status"} :
    shownFrom[k] # 0 => shownFrom[k] >= selection

\* the time of the last accepted click of the log, 0 when there is none
RECURSIVE LastAcceptedAt(_)
LastAcceptedAt(log) ==
  IF log = << >> THEN 0
  ELSE IF log[Len(log)].accepted THEN log[Len(log)].at
  ELSE LastAcceptedAt(SubSeq(log, 1, Len(log) - 1))

\* a click event is rejected exactly when it comes less than the debounce
\* delay after the last accepted one; rejected, it changes nothing; accepted,
\* it stamps the guard and starts fetchBrgmData
DebounceStep ==
  Len(clicked') = Len(clicked) + 1 =>
    /\ clicked'[Len(clicked')].at = now
    /\ clicked'[Len(clicked')].accepted = ~(now - LastAcceptedAt(clicked) < DebounceMs)
    /\ IF clicked'[Len(clicked')].accepted
       THEN /\ lastClickTime' = now
            /\ \E c \in AppCoords : fetching' = fetching \cup { [at |-> now, coords |-> c] }
       ELSE UNCHANGED <<lastClickTime, fetching>>
    /\ UNCHANGED <<status, analysisData, error, selectedCoords, isPanelOpen,
                   currentWmsData, pending, issued, selection, shownFrom>>

\* any two accepted clicks are at least the debounce delay apart
AcceptedApart ==
  \A i, j \in DOMAIN clicked :
    (i < j /\ clicked[i].accepted /\ clicked[j].accepted)
      => clicked[j].at - clicked[i].at >= DebounceMs

\* C21: a click less than 1000 ms after the last accepted one is rejected,
\* fetches nothing, starts no analysis and leaves the guard's timestamp alone,
\* so that two accepted clicks are at least 1000 ms apart.
C21_DebounceGuard ==
  /\ [][DebounceStep]_vars
  /\ []AcceptedApart

\* a click accepted, one rejected half a delay later, and one accepted right
\* at the end of the delay
C21_Witness ==
  /\ Len(clicked) = 3
  /\ clicked[1].accepted /\ ~clicked[2].accepted /\ clicked[3].accepted
  /\ clicked[2].at - clicked[1].at = TickMs
  /\ clicked[3].at - clicked[1].at = DebounceMs
  /\ lastClickTime = clicked[3].at
  /\ Cardinality(fetching) + issued = 2

\* C23: attempt k of the loop (k = 1 or 2) ending without usable text, a wait
\* of 2000 ms * k precedes attempt k + 1, and no wait follows the last attempt
\* made.
C23_BackoffBeforeEveryRetry ==
  attempts >= 1 =>
    /\ Len(waits) = (IF pc = "inferring" THEN attempts ELSE attempts - 1)
    /\ \A k \in DOMAIN waits : waits[k] = BackoffBase * k

\* the response that the handler gives once this text is parsed
ResponseFor(parserInput) ==
  LET n == NormalizeData(JSONparse(parserInput), req[1].lat, req[1].lng)
  IN  << [status |-> n.status,
          body |-> IF n.status = 200 THEN n.body ELSE ErrorBody(n.message)] >>

\* C24: of a reply that wraps an object in fences, with prose before its "{"
\* and after its "}", the object alone is parsed; a reply without "{" or
\* without "}" is parsed unsliced, its fences removed.
C24_FencedReplySliced ==
  \A c \in FenceCases :
    (pc = "done" /\ text = Some(c.raw)) =>
      /\ CleanResponse(c.raw) = c.inner
      /\ res = ResponseFor(c.inner)

\* a fenced record between two proses, the first with a "}" and the second
\* with a "{", answered with the record
C24_Witness ==
  /\ pc = "done"
  /\ Len(res) = 1
  /\ text = Some("Fin } du préambule. " \o Fence \o "json\n"
                 \o Stringify(RecordOf("Niveau {a} puis }b{"))
                 \o "\n" \o Fence \o " Voir { ci-dessus")
  /\ res[1].status = 200
  /\ Get(res[1].body, "description") = Some(JStr("Niveau {a} puis }b{"))

\* C25: the serialization of a record, whatever its strings hold, is
\* normalized to that very record.
C25_RoundTrip ==
  \A r \in CleanRecords :
    (pc = "done" /\ text = Some(Stringify(r))) =>
      res = << [status |-> 200, body |-> Result(r, req[1].lat, req[1].lng)] >>

\* the image of the request, None when none was supplied
SuppliedImage ==
  IF BodyWms = None \/ BodyWms[1].mapImageBase64 = None \/ BodyWms[1].mapImageBase64[1] = ""
  THEN None
  ELSE BodyWms[1].mapImageBase64

\* C26: every attempt of the loop sends the JPEG image first, exactly when the
\* request supplied one, then one text block, the same on every attempt; the
\* fallback call sends that text block alone.
C26_PartsOfEveryCall ==
  /\ \A i \in LoopCalls :
       /\ Len(calls[i].contents) = (IF SuppliedImage = None THEN 1 ELSE 2)
       /\ SuppliedImage # None =>
            calls[i].contents[1] =
              [kind |-> "inlineData", mimeType |-> "image/jpeg", data |-> SuppliedImage[1]]
       /\ calls[i].contents[Len(calls[i].contents)].kind = "text"
       /\ calls[i].contents[Len(calls[i].contents)].data = prompt
       /\ calls[i].contents = calls[1].contents
  /\ \A i \in FallbackCalls :
       /\ Len(calls[i].contents) = 1
       /\ calls[i].contents[1].kind = "text"
       /\ calls[i].contents[1].data = calls[1].contents[Len(calls[1].contents)].data

\* an error, an overload and an empty reply on three attempts with the same
\* image and text, then the fallback call with the text alone
C26_Witness ==
  /\ Len(calls) = 4
  /\ SuppliedImage # None
  /\ calls[1].result = "other" /\ calls[2].result = "overload" /\ calls[3].result = "empty"
  /\ \A j \in 1..3 : Len(calls[j].contents) = 2 /\ calls[j].contents[1].kind = "inlineData"
  /\ calls[4].attempt = 0
  /\ Len(calls[4].contents) = 1
  /\ prompt # ""

\* C27: the API route answering a non-OK status, the error shown by the App
\* is the message of that answer, or 'Erreur lors de l'analyse' when the
\* answer has none: the wait message after a quota failure, the try-again
\* message after an overload.
C27_ServerMessageShown ==
  (status = "ERROR" /\ answer # None /\ answer[1].status \notin 200..299) =>
    error = Some(IF answer[1].error # None /\ answer[1].error[1] # ""
                 THEN answer[1].error[1]
                 ELSE "Erreur lors de l'analyse")

ErrorResults == {"quota", "overload", "other"}

\* C28: an error of the fallback call, of any kind, is the last call of the
\* request and ends it with the empty-response failure, never with a message
\* of its own; and a fallback call is made only after a third attempt that
\* returned: a third attempt that throws ends the request without it, even
\* after empty replies.
C28_FallbackErrorSwallowed ==
  /\ \A i \in FallbackCalls :
       /\ calls[3].attempt = 3 /\ calls[3].result = "empty"
       /\ calls[i].result \in ErrorResults =>
            /\ i = Len(calls)
            /\ ~HasText(text)
            /\ pc \in {"normalizing", "done"}
            /\ pc = "normalizing" => res = << >>
            /\ pc = "done" => res = << Failure(EmptyResponseMessage) >>
  /\ (Len(calls) >= 3 /\ calls[3].result \in ErrorResults) =>
       /\ Len(calls) = 3
       /\ pc = "done"
       /\ Len(res) = 1
       /\ res[1].status = 500
       /\ res # << Failure(EmptyResponseMessage) >>

\* three empty replies, then a fallback call refused for quota: the request
\* has failed with the empty-response message
C28_Witness ==
  /\ Len(calls) = 4
  /\ \A j \in 1..3 : calls[j].result = "empty"
  /\ calls[4].attempt = 0
  /\ calls[4].result = "quota"
  /\ waits = << >>
  /\ pc = "done"
  /\ res = << Failure(EmptyResponseMessage) >>

\* the manual code of an analysis call, None when it has none
ManualCodeOf(call) == IF call.wmsData = None THEN None ELSE call.wmsData[1].manualCode

\* the calls of manual corrections carry a non-empty trimmed code; the stored
\* evidence and the calls of selections carry none; the evidence stored is
\* the one the latest selection sent
CorrectionState ==
  /\ \A c \in pending :
       IF c.by = "manual"
       THEN /\ ManualCodeOf(c) # None
            /\ ManualCodeOf(c)[1] # ""
            /\ Trim(ManualCodeOf(c)[1]) = ManualCodeOf(c)[1]
       ELSE /\ ManualCodeOf(c) = None
            /\ c.id = selection =>
                 /\ selectedCoords = Some([lat |-> c.lat, lng |-> c.lng])
                 /\ currentWmsData = c.wmsData
  /\ currentWmsData # None => currentWmsData[1].manualCode = None

\* a submitted text that is blank, or submitted with no point selected, has
\* no step that changes the state
SubmitWithoutEffect ==
  \A e \in EditCodes :
    (Trim(e) = "" \/ selectedCoords = None) =>
      ~ ENABLED (handleEditSubmit(e) /\ vars' # vars)

\* a step that adds the call of a manual correction adds that call alone, is
\* taken with a point selected, for that point, with the stored raw text and
\* image and the trim of a submitted text as manual code, and leaves the
\* selection, its evidence and the record shown as they are
CorrectionStep ==
  \A c \in pending' \ pending :
    c.by = "manual" =>
      /\ pending' = pending \cup {c}
      /\ selectedCoords = Some([lat |-> c.lat, lng |-> c.lng])
      /\ \E e \in EditCodes : c.wmsData[1].manualCode = Some(Trim(e))
      /\ c.wmsData[1].rawResponse =
           (IF currentWmsData = None THEN "" ELSE currentWmsData[1].rawResponse)
      /\ c.wmsData[1].mapImageBase64 =
           (IF currentWmsData = None THEN None ELSE currentWmsData[1].mapImageBase64)
      /\ UNCHANGED <<selectedCoords, currentWmsData, analysisData, fetching>>

\* C29: a manual correction makes an analysis call only with a non-empty
\* trimmed code and a point selected, for that point, with the evidence
\* stored for it plus the code; otherwise nothing changes; and the code is
\* not stored, so that no selection sends one.
C29_ManualCorrectionFrame ==
  /\ []CorrectionState
  /\ []SubmitWithoutEffect
  /\ [][CorrectionStep]_vars

\* the correction of a selection whose evidence was stored: its call carries
\* the stored raw text and image with the code, and the stored evidence has
\* no code
C29_Witness ==
  /\ issued = 2
  /\ selection = 1
  /\ currentWmsData # None
  /\ currentWmsData[1].manualCode = None
  /\ \E c \in pending :
       /\ c.id = 2
       /\ c.by = "manual"
       /\ c.wmsData = Some([currentWmsData[1] EXCEPT !.manualCode = Some("J9ad")])
       /\ selectedCoords = Some([lat |-> c.lat, lng |-> c.lng])
  /\ status = "LOADING"

\* C30: in every reachable App state a status of SUCCESS comes with a
\* record, a status of ERROR with an error message, and the status is IDLE
\* exactly as long as no location selection was made.
C30_StatusInvariants ==
  /\ status \in {"IDLE", "LOADING", "SUCCESS", "ERROR"}
  /\ status = "SUCCESS" => analysisData # None
  /\ status = "ERROR" => error # None /\ error[1] # ""
  /\ status = "IDLE" <=> selection = 0
  /\ status = "IDLE" => issued = 0 /\ selectedCoords = None /\ pending = {}

\* the call of the selection threw while a correction was under way, then
\* the correction returned a record: SUCCESS with the record, the message of
\* the earlier failure still stored
C30_Witness ==
  /\ status = "SUCCESS"
  /\ analysisData # None
  /\ error # None
  /\ shownFrom.error = 1
  /\ shownFrom.data = 2
  /\ pending = {}

\* the calls of the retry loop in the history of an invocation
LoopCallsOf(L) == {i \in 1..Len(L.calls) : L.calls[i].attempt >= 1}

\* the calls of an invocation that ended with an error
FailedCallsOf(L) ==
  {i \in 1..Len(L.calls) : L.calls[i].result \in {"quota", "overload", "other"}}

KeyPresent == apiKey # None /\ apiKey[1] # ""

\* what lines 203-338 make of each request alone: the evidence left in
\* wmsData, the extracted code and description, the prompt and the parts
AloneBriefs ==
  { LET e == Extract(r.wmsData)
        b == Brief(IF r.wmsData = None THEN None ELSE r.wmsData[1].manualCode,
                   e.extractedCode, e.extractedDescription, e.rawResponse)
        p == Prompt(r.lat, r.lng, b.wmsInfo, b.instructions)
    IN  [req |-> r,
         wmsData |-> IF r.wmsData = None THEN None
                     ELSE Some([r.wmsData[1] EXCEPT !.rawResponse = e.rawResponse[1]]),
         extractedCode |-> e.extractedCode,
         extractedDescription |-> e.extractedDescription,
         prompt |-> p,
         parts |-> Parts(IF r.wmsData = None THEN None
                         ELSE r.wmsData[1].mapImageBase64, p)] : r \in PairRequests }

\* the running invocation takes its evidence, prompt and parts from its own
\* request, where it extracts and where it builds the prompt, and no other
\* step of it changes them or the request
OwnBrief ==
  running' = running =>
    /\ pc # "idle" => req' = req
    /\ pc \notin {"idle", "collecting"} =>
         UNCHANGED <<wmsData, extractedCode, extractedDescription>>
    /\ pc # "synthesizing" => UNCHANGED <<prompt, parts>>
    /\ pc \in {"collecting", "synthesizing"} =>
         \E alone \in AloneBriefs :
           /\ alone.req = req[1]
           /\ wmsData' = alone.wmsData
           /\ extractedCode' = alone.extractedCode
           /\ extractedDescription' = alone.extractedDescription
           /\ pc = "synthesizing" => prompt' = alone.prompt /\ parts' = alone.parts

\* the counter, reply text, last error and waits of an invocation are those
\* of its own calls: the loop calls are numbered from 1, a call that
\* returned text is the last one, the counter is the number of loop calls,
\* the text and last error are those of the last call, and there is one wait
\* per failed loop call before the last attempt
OwnLoopState(L) ==
  /\ Len(L.calls) <= maxAttempts + 1
  /\ \A i \in 1..Len(L.calls) :
       /\ IF i <= maxAttempts
          THEN L.calls[i].attempt = i /\ L.calls[i].contents = L.parts
          ELSE /\ L.calls[i].attempt = 0
               /\ L.calls[i].contents = FallbackContents(L.prompt, L.parts)
       /\ i < Len(L.calls) => L.calls[i].result # "text"
  /\ L.attempts = Cardinality(LoopCallsOf(L))
  /\ HasText(L.text) <=> Len(L.calls) > 0 /\ L.calls[Len(L.calls)].result = "text"
  /\ L.lastErr # None <=> Len(L.calls) \in FailedCallsOf(L)
  /\ Len(L.waits) = Cardinality({i \in FailedCallsOf(L) : i < maxAttempts})
  /\ \A k \in 1..Len(L.waits) :
       \E i \in FailedCallsOf(L) : i < maxAttempts /\ L.waits[k] = BackoffBase * i

\* the response of an invocation is the one of its own request r and its
\* own calls: none before the end, then the error of a missing key, the
\* error of the last attempt, or what normalizing its own reply text for
\* its own coordinates gives
OwnResponse(L, r) ==
  /\ Len(L.res) = IF L.pc = "done" THEN 1 ELSE 0
  /\ L.pc = "done" =>
       IF ~KeyPresent
       THEN L.res[1] = Failure(ApiKeyMessage)
       ELSE IF Len(L.calls) = maxAttempts /\ maxAttempts \in FailedCallsOf(L)
       THEN L.res[1] = Failure(OverloadedMessage)
       ELSE \A n \in {NormalizeOutcome(L.text, r.lat, r.lng)} :
              L.res[1] = IF n.status = 200
                         THEN [status |-> 200, body |-> n.body]
                         ELSE Failure(n.message)

\* an invocation is where it would be alone with its request and its calls
AsAlone(L) ==
  IF L.req = None
  THEN L = IdleLocals
  ELSE /\ L.pc # "idle"
       /\ L.req[1] \in PairRequests
       /\ OwnLoopState(L)
       /\ OwnResponse(L, L.req[1])

\* a step of the running invocation leaves the variables of the other one
\* as they are, and a switch hands each invocation its own variables back
NothingShared ==
  IF running' = running
  THEN suspended' = suspended
  ELSE suspended' = Locals /\ Locals' = suspended

\* C22: of two invocations of the handler interleaved at their inference
\* calls and backoff waits, each has at any time the evidence, prompt,
\* counter, reply text and response that its own request and its own calls
\* give it alone, and no step of one changes a variable of the other.
C22_Reentrant ==
  /\ [](AsAlone(Locals) /\ AsAlone(suspended))
  /\ [][OwnBrief]_vars
  /\ [][NothingShared]_vars

\* two different requests under way at once: one invocation waits for its
\* second attempt after a backoff, the other one has made two attempts
\* without text and waits for its third
C22_Witness ==
  /\ pc = "inferring"
  /\ attempts = 2
  /\ waits = << >>
  /\ suspended.pc = "inferring"
  /\ suspended.attempts = 1
  /\ suspended.waits = <<BackoffBase>>
  /\ req # suspended.req
  /\ extractedCode # suspended.extractedCode

====
